---- MODULE Spec2Model ----
(***************************************************************************)
(* The repetition detector of backend/script.py (class ExerciseDetector)   *)
(* together with the two files it shares with backend/backend.py:          *)
(* rep_counter.json and target_exercise.json.                              *)
(*                                                                         *)
(* Angles are whole degrees, visibility scores are whole percents.  A      *)
(* frame's landmarks are represented by what the detector reads of them:   *)
(* the length of the landmark list, the visibility of each joint and the   *)
(* angle calculate_angle returns for each joint triple the classifiers     *)
(* pass to it.                                                             *)
(***************************************************************************)
EXTENDS Integers, Sequences, FiniteSets, TLC

VARIABLES
    target_exercise,      \* ExerciseDetector.target_exercise
    jumping_jack_state,   \* ExerciseDetector.jumping_jack_state
    squat_state,          \* ExerciseDetector.squat_state
    left_knee_was_up,     \* ExerciseDetector.left_knee_was_up
    right_knee_was_up,    \* ExerciseDetector.right_knee_was_up
    rep_counts,           \* ExerciseDetector.rep_counts (a dict)
    cooldown_frames,      \* ExerciseDetector.cooldown_frames
    reload_counter,       \* ExerciseDetector.reload_counter
    warning_counter,      \* ExerciseDetector.warning_counter
    rep_counter_json,     \* the file at REP_COUNTER_PATH
    target_exercise_json, \* the file at TARGET_EXERCISE_PATH
    last_call,            \* history: what the latest operation did
    window,               \* history: calls left of the window opened by the latest counted rep
    trace,                \* history: the calls of a bounded session, in order
    ledger,               \* history: reps counted by the detector, counts handed out by process_reps
    race                  \* where the detector and process_reps stand when their steps interleave

detector == <<target_exercise, jumping_jack_state, squat_state, left_knee_was_up,
              right_knee_was_up, rep_counts, cooldown_frames, reload_counter,
              warning_counter>>
files == <<rep_counter_json, target_exercise_json>>
vars == <<detector, files, last_call, window, trace, ledger, race>>

----------------------------------------------------------------------------
(* Bounds of the model *)

\* reps counted in one session of SpecCool and of SpecApart
MaxCoolReps == 2
\* reps counted in one session of SpecAdopt
MaxAdoptReps == 1
\* reps counted in one session of SpecLoad
MaxLoadReps == 1
\* reps counted in one session of SpecWarn
MaxWarnReps == 1
\* reps counted in one session of SpecRace
MaxRaceReps == 2
\* reps counted in one session of SpecIO
MaxIOReps == 3
\* calls of a classifier in one session of SpecDetect
MaxCalls == 4
\* frames of one session of SpecE2E
MaxFrames == 5
\* reps counted in one session of Spec
MaxReps == 2
\* consecutive insufficiently visible frames the camera delivers in Spec
MaxHidden == 2

----------------------------------------------------------------------------
(* PoseLandmark: the indices the detector reads *)

LEFT_SHOULDER == 11
RIGHT_SHOULDER == 12
LEFT_ELBOW == 13
RIGHT_ELBOW == 14
LEFT_WRIST == 15
RIGHT_WRIST == 16
LEFT_HIP == 23
RIGHT_HIP == 24
LEFT_KNEE == 25
RIGHT_KNEE == 26
LEFT_ANKLE == 27
RIGHT_ANKLE == 28

Joints == {LEFT_SHOULDER, RIGHT_SHOULDER, LEFT_ELBOW, RIGHT_ELBOW, LEFT_WRIST,
           RIGHT_WRIST, LEFT_HIP, RIGHT_HIP, LEFT_KNEE, RIGHT_KNEE, LEFT_ANKLE,
           RIGHT_ANKLE}

(* ExerciseType, JumpingJackState, SquatState: the enums' values *)
JUMPING_JACK == "jumping_jacks"
SQUAT == "squats"
HIGH_KNEES == "high_knees"
NONE == "none"
NEUTRAL == "neutral"
ARMS_UP == "arms_up"
STANDING == "standing"
SQUATTING == "squatting"

(* Fields of the dataclass and literals of process_frame *)
COOLDOWN_DURATION == 10
HIGH_KNEES_COOLDOWN == 3
RELOAD_INTERVAL == 30
WARNING_INTERVAL == 30
\* min_visibility=0.5, in percent
min_visibility == 50
\* thresholds of detect_high_knees
UP_THRESHOLD == 90
DOWN_THRESHOLD == 140

\* a landmark without a visibility attribute (hasattr(landmark, 'visibility') is false)
NoVisibility == -1

----------------------------------------------------------------------------
(* Joint geometry *)

\* The joint triples the classifiers hand to calculate_angle.
ShoulderL == <<LEFT_HIP, LEFT_SHOULDER, LEFT_ELBOW>>
ShoulderR == <<RIGHT_HIP, RIGHT_SHOULDER, RIGHT_ELBOW>>
KneeL == <<LEFT_HIP, LEFT_KNEE, LEFT_ANKLE>>
KneeR == <<RIGHT_HIP, RIGHT_KNEE, RIGHT_ANKLE>>

\* calculate_angle(landmarks[i1], landmarks[i2], landmarks[i3]), in degrees
calculate_angle(landmarks, i1, i2, i3) == landmarks.angle[<<i1, i2, i3>>]

----------------------------------------------------------------------------
(* Exercise classifiers and their state machines.  Each takes the detector *)
(* (a record of its fields) and returns the detector after the call and    *)
(* the value returned.                                                     *)

\* detect_jumping_jack content with one shoulder across the threshold
detect_jumping_jack_either(self, landmarks) ==
    LET left_shoulder_angle == calculate_angle(landmarks, LEFT_HIP, LEFT_SHOULDER, LEFT_ELBOW)
        right_shoulder_angle == calculate_angle(landmarks, RIGHT_HIP, RIGHT_SHOULDER, RIGHT_ELBOW)
        arms_up == left_shoulder_angle < 100 \/ right_shoulder_angle < 100
        arms_down == left_shoulder_angle > 140 \/ right_shoulder_angle > 140
    IN  IF self.jumping_jack_state = NEUTRAL /\ arms_up
        THEN [self |-> [self EXCEPT !.jumping_jack_state = ARMS_UP], rep_completed |-> FALSE]
        ELSE IF self.jumping_jack_state = ARMS_UP /\ arms_down
        THEN [self |-> [self EXCEPT !.jumping_jack_state = NEUTRAL], rep_completed |-> TRUE]
        ELSE [self |-> self, rep_completed |-> FALSE]

\* detect_jumping_jack entering ArmsUp below 120 degrees instead of below 100
detect_jumping_jack_loose(self, landmarks) ==
    LET left_shoulder_angle == calculate_angle(landmarks, LEFT_HIP, LEFT_SHOULDER, LEFT_ELBOW)
        right_shoulder_angle == calculate_angle(landmarks, RIGHT_HIP, RIGHT_SHOULDER, RIGHT_ELBOW)
        arms_up == left_shoulder_angle < 120 /\ right_shoulder_angle < 120
        arms_down == left_shoulder_angle > 140 /\ right_shoulder_angle > 140
    IN  IF self.jumping_jack_state = NEUTRAL /\ arms_up
        THEN [self |-> [self EXCEPT !.jumping_jack_state = ARMS_UP], rep_completed |-> FALSE]
        ELSE IF self.jumping_jack_state = ARMS_UP /\ arms_down
        THEN [self |-> [self EXCEPT !.jumping_jack_state = NEUTRAL], rep_completed |-> TRUE]
        ELSE [self |-> self, rep_completed |-> FALSE]

\* detect_jumping_jack reporting the rep when the arms go up
detect_jumping_jack_eager(self, landmarks) ==
    LET left_shoulder_angle == calculate_angle(landmarks, LEFT_HIP, LEFT_SHOULDER, LEFT_ELBOW)
        right_shoulder_angle == calculate_angle(landmarks, RIGHT_HIP, RIGHT_SHOULDER, RIGHT_ELBOW)
        arms_up == left_shoulder_angle < 100 /\ right_shoulder_angle < 100
        arms_down == left_shoulder_angle > 140 /\ right_shoulder_angle > 140
    IN  IF self.jumping_jack_state = NEUTRAL /\ arms_up
        THEN [self |-> [self EXCEPT !.jumping_jack_state = ARMS_UP], rep_completed |-> TRUE]
        ELSE IF self.jumping_jack_state = ARMS_UP /\ arms_down
        THEN [self |-> [self EXCEPT !.jumping_jack_state = NEUTRAL], rep_completed |-> FALSE]
        ELSE [self |-> self, rep_completed |-> FALSE]

detect_jumping_jack(self, landmarks) ==
    LET left_shoulder_angle == calculate_angle(landmarks, LEFT_HIP, LEFT_SHOULDER, LEFT_ELBOW)
        right_shoulder_angle == calculate_angle(landmarks, RIGHT_HIP, RIGHT_SHOULDER, RIGHT_ELBOW)
        arms_up == left_shoulder_angle < 100 /\ right_shoulder_angle < 100
        arms_down == left_shoulder_angle > 140 /\ right_shoulder_angle > 140
    IN  IF self.jumping_jack_state = NEUTRAL /\ arms_up
        THEN [self |-> [self EXCEPT !.jumping_jack_state = ARMS_UP], rep_completed |-> FALSE]
        ELSE IF self.jumping_jack_state = ARMS_UP /\ arms_down
        THEN [self |-> [self EXCEPT !.jumping_jack_state = NEUTRAL], rep_completed |-> TRUE]
        ELSE [self |-> self, rep_completed |-> FALSE]

\* detect_squat entering Squatting as soon as one knee is below 120 degrees
detect_squat_one_knee(self, landmarks) ==
    LET left_knee_angle == calculate_angle(landmarks, LEFT_HIP, LEFT_KNEE, LEFT_ANKLE)
        right_knee_angle == calculate_angle(landmarks, RIGHT_HIP, RIGHT_KNEE, RIGHT_ANKLE)
        avg_knee_angle_x2 == left_knee_angle + right_knee_angle
        is_squatting == left_knee_angle < 120 \/ right_knee_angle < 120
        is_standing == avg_knee_angle_x2 > 2 * 160
    IN  IF self.squat_state = STANDING /\ is_squatting
        THEN [self |-> [self EXCEPT !.squat_state = SQUATTING], rep_completed |-> FALSE]
        ELSE IF self.squat_state = SQUATTING /\ is_standing
        THEN [self |-> [self EXCEPT !.squat_state = STANDING], rep_completed |-> TRUE]
        ELSE [self |-> self, rep_completed |-> FALSE]

\* detect_squat reporting the rep on the way up without leaving Squatting
detect_squat_sticky(self, landmarks) ==
    LET avg_knee_angle_x2 == calculate_angle(landmarks, LEFT_HIP, LEFT_KNEE, LEFT_ANKLE)
                               + calculate_angle(landmarks, RIGHT_HIP, RIGHT_KNEE, RIGHT_ANKLE)
    IN  IF self.squat_state = STANDING /\ avg_knee_angle_x2 < 2 * 120
        THEN [self |-> [self EXCEPT !.squat_state = SQUATTING], rep_completed |-> FALSE]
        ELSE IF self.squat_state = SQUATTING /\ avg_knee_angle_x2 > 2 * 160
        THEN [self |-> self, rep_completed |-> TRUE]
        ELSE [self |-> self, rep_completed |-> FALSE]

\* detect_squat reporting the rep on the way down instead of on the way up
detect_squat_early(self, landmarks) ==
    LET avg_knee_angle_x2 == calculate_angle(landmarks, LEFT_HIP, LEFT_KNEE, LEFT_ANKLE)
                               + calculate_angle(landmarks, RIGHT_HIP, RIGHT_KNEE, RIGHT_ANKLE)
    IN  IF self.squat_state = STANDING /\ avg_knee_angle_x2 < 2 * 120
        THEN [self |-> [self EXCEPT !.squat_state = SQUATTING], rep_completed |-> TRUE]
        ELSE IF self.squat_state = SQUATTING /\ avg_knee_angle_x2 > 2 * 160
        THEN [self |-> [self EXCEPT !.squat_state = STANDING], rep_completed |-> FALSE]
        ELSE [self |-> self, rep_completed |-> FALSE]

\* detect_squat entering Squatting below 140 degrees instead of below 120
detect_squat_loose(self, landmarks) ==
    LET avg_knee_angle_x2 == calculate_angle(landmarks, LEFT_HIP, LEFT_KNEE, LEFT_ANKLE)
                               + calculate_angle(landmarks, RIGHT_HIP, RIGHT_KNEE, RIGHT_ANKLE)
    IN  IF self.squat_state = STANDING /\ avg_knee_angle_x2 < 2 * 140
        THEN [self |-> [self EXCEPT !.squat_state = SQUATTING], rep_completed |-> FALSE]
        ELSE IF self.squat_state = SQUATTING /\ avg_knee_angle_x2 > 2 * 160
        THEN [self |-> [self EXCEPT !.squat_state = STANDING], rep_completed |-> TRUE]
        ELSE [self |-> self, rep_completed |-> FALSE]

\* detect_squat with the two thresholds included: <= 120 squats, >= 160 stands
detect_squat_inclusive(self, landmarks) ==
    LET avg_knee_angle_x2 == calculate_angle(landmarks, LEFT_HIP, LEFT_KNEE, LEFT_ANKLE)
                               + calculate_angle(landmarks, RIGHT_HIP, RIGHT_KNEE, RIGHT_ANKLE)
    IN  IF self.squat_state = STANDING /\ avg_knee_angle_x2 <= 2 * 120
        THEN [self |-> [self EXCEPT !.squat_state = SQUATTING], rep_completed |-> FALSE]
        ELSE IF self.squat_state = SQUATTING /\ avg_knee_angle_x2 >= 2 * 160
        THEN [self |-> [self EXCEPT !.squat_state = STANDING], rep_completed |-> TRUE]
        ELSE [self |-> self, rep_completed |-> FALSE]

\* avg_knee_angle = (left + right) / 2 is a float; the model keeps twice the
\* average and compares it with twice each threshold.
detect_squat(self, landmarks) ==
    LET left_knee_angle == calculate_angle(landmarks, LEFT_HIP, LEFT_KNEE, LEFT_ANKLE)
        right_knee_angle == calculate_angle(landmarks, RIGHT_HIP, RIGHT_KNEE, RIGHT_ANKLE)
        avg_knee_angle_x2 == left_knee_angle + right_knee_angle
        is_squatting == avg_knee_angle_x2 < 2 * 120
        is_standing == avg_knee_angle_x2 > 2 * 160
    IN  IF self.squat_state = STANDING /\ is_squatting
        THEN [self |-> [self EXCEPT !.squat_state = SQUATTING], rep_completed |-> FALSE]
        ELSE IF self.squat_state = SQUATTING /\ is_standing
        THEN [self |-> [self EXCEPT !.squat_state = STANDING], rep_completed |-> TRUE]
        ELSE [self |-> self, rep_completed |-> FALSE]

\* detect_high_knees with the right leg's test chained to the left leg's by elif
detect_high_knees_chained(self, landmarks) ==
    LET left_angle == calculate_angle(landmarks, LEFT_HIP, LEFT_KNEE, LEFT_ANKLE)
        right_angle == calculate_angle(landmarks, RIGHT_HIP, RIGHT_KNEE, RIGHT_ANKLE)
        left_up == left_angle < UP_THRESHOLD /\ ~self.left_knee_was_up
        left_down == ~left_up /\ left_angle > DOWN_THRESHOLD /\ self.left_knee_was_up
        right_up == ~left_up /\ ~left_down /\ right_angle < UP_THRESHOLD /\ ~self.right_knee_was_up
        right_down == ~left_up /\ ~left_down /\ ~right_up
                        /\ right_angle > DOWN_THRESHOLD /\ self.right_knee_was_up
    IN  [self |-> [self EXCEPT
                     !.left_knee_was_up = IF left_up THEN TRUE ELSE IF left_down THEN FALSE ELSE @,
                     !.right_knee_was_up = IF right_up THEN TRUE ELSE IF right_down THEN FALSE ELSE @],
         rep_completed |-> left_down \/ right_down]

detect_high_knees(self, landmarks) ==
    LET left_angle == calculate_angle(landmarks, LEFT_HIP, LEFT_KNEE, LEFT_ANKLE)
        right_angle == calculate_angle(landmarks, RIGHT_HIP, RIGHT_KNEE, RIGHT_ANKLE)
        left_up == left_angle < UP_THRESHOLD /\ ~self.left_knee_was_up
        left_down == ~left_up /\ left_angle > DOWN_THRESHOLD /\ self.left_knee_was_up
        right_up == right_angle < UP_THRESHOLD /\ ~self.right_knee_was_up
        right_down == ~right_up /\ right_angle > DOWN_THRESHOLD /\ self.right_knee_was_up
    IN  [self |-> [self EXCEPT
                     !.left_knee_was_up = IF left_up THEN TRUE ELSE IF left_down THEN FALSE ELSE @,
                     !.right_knee_was_up = IF right_up THEN TRUE ELSE IF right_down THEN FALSE ELSE @],
         rep_completed |-> left_down \/ right_down]

----------------------------------------------------------------------------
(* Visibility gate *)

\* check_landmarks_visible with the threshold at 0.4 instead of min_visibility
check_landmarks_visible_lenient(landmarks, required_indices) ==
    LET missing == {idx \in required_indices :
                      IF idx < landmarks.len
                      THEN /\ landmarks.visibility[idx] # NoVisibility
                           /\ landmarks.visibility[idx] < 40
                      ELSE TRUE}
    IN  [all_visible |-> missing = {}, missing |-> missing]

\* check_landmarks_visible: the indices it reports missing, and whether none is.
check_landmarks_visible(landmarks, required_indices) ==
    LET missing == {idx \in required_indices :
                      IF idx < landmarks.len
                      THEN /\ landmarks.visibility[idx] # NoVisibility
                           /\ landmarks.visibility[idx] < min_visibility
                      ELSE TRUE}
    IN  [all_visible |-> missing = {}, missing |-> missing]

\* The dict required_landmarks of process_frame.
required_landmarks ==
    [e \in {JUMPING_JACK, SQUAT, HIGH_KNEES} |->
        IF e = JUMPING_JACK
        THEN {LEFT_SHOULDER, RIGHT_SHOULDER, LEFT_ELBOW, RIGHT_ELBOW,
              LEFT_WRIST, RIGHT_WRIST, LEFT_HIP, RIGHT_HIP}
        ELSE {LEFT_HIP, RIGHT_HIP, LEFT_KNEE, RIGHT_KNEE, LEFT_ANKLE, RIGHT_ANKLE}]

----------------------------------------------------------------------------
(* Persistence.  A file is missing, present with a JSON object, or present  *)
(* with content json.load rejects.  fs is the pair of files; io tells       *)
(* which of the call's reads and writes succeed.                            *)

EmptyDict == [k \in {} |-> 0]
Missing == [state |-> "missing", data |-> EmptyDict]
Corrupt == [state |-> "corrupt", data |-> EmptyDict]
Present(d) == [state |-> "present", data |-> d]

IoOk == [target_read |-> "ok", target_write |-> "ok", counts_read |-> "ok", counts_write |-> "ok"]

\* save_counts that never reaches the file
save_counts_dropped(self, fs, io) == [self |-> self, fs |-> fs]

save_counts(self, fs, io) ==
    IF io.counts_write = "ok"
    THEN [self |-> self, fs |-> [fs EXCEPT !.rep_counter = Present(self.rep_counts)]]
    ELSE [self |-> self, fs |-> fs]

\* load_counts doing nothing when the file does not exist
load_counts_no_create(self, fs, io) ==
    IF fs.rep_counter.state # "missing"
    THEN IF io.counts_read = "ok" /\ fs.rep_counter.state = "present"
         THEN [self |-> [self EXCEPT !.rep_counts = fs.rep_counter.data], fs |-> fs]
         ELSE [self |-> self, fs |-> fs]
    ELSE [self |-> self, fs |-> fs]

load_counts(self, fs, io) ==
    IF fs.rep_counter.state # "missing"
    THEN IF io.counts_read = "ok" /\ fs.rep_counter.state = "present"
         THEN [self |-> [self EXCEPT !.rep_counts = fs.rep_counter.data], fs |-> fs]
         ELSE [self |-> self, fs |-> fs]
    ELSE save_counts(self, fs, io)

\* the chain's final else leaving the selector at NONE
ExerciseOf_strict(target) ==
    IF target = "jumping_jacks" THEN JUMPING_JACK
    ELSE IF target = "squats" THEN SQUAT
    ELSE IF target = "high_knees" THEN HIGH_KNEES
    ELSE NONE

\* The string-to-ExerciseType chain of load_target_exercise.
ExerciseOf(target) ==
    IF target = "jumping_jacks" THEN JUMPING_JACK
    ELSE IF target = "squats" THEN SQUAT
    ELSE IF target = "high_knees" THEN HIGH_KNEES
    ELSE SQUAT

\* load_target_exercise defaulting to SQUAT without creating the file
load_target_exercise_no_create(self, fs, io) ==
    IF fs.target_exercise.state # "missing"
    THEN IF io.target_read = "ok" /\ fs.target_exercise.state = "present"
         THEN LET data == fs.target_exercise.data
                  target == IF "target" \in DOMAIN data THEN data["target"] ELSE "squats"
              IN  [self |-> [self EXCEPT !.target_exercise = ExerciseOf(target)], fs |-> fs]
         ELSE [self |-> [self EXCEPT !.target_exercise = SQUAT], fs |-> fs]
    ELSE [self |-> [self EXCEPT !.target_exercise = SQUAT], fs |-> fs]

load_target_exercise(self, fs, io) ==
    IF fs.target_exercise.state # "missing"
    THEN IF io.target_read = "ok" /\ fs.target_exercise.state = "present"
         THEN LET data == fs.target_exercise.data
                  target == IF "target" \in DOMAIN data THEN data["target"] ELSE "squats"
              IN  [self |-> [self EXCEPT !.target_exercise = ExerciseOf(target)], fs |-> fs]
         ELSE [self |-> [self EXCEPT !.target_exercise = SQUAT], fs |-> fs]
    ELSE [self |-> [self EXCEPT !.target_exercise = SQUAT],
          fs |-> IF io.target_write = "ok"
                 THEN [fs EXCEPT !.target_exercise = Present([k \in {"target"} |-> "squats"])]
                 ELSE fs]

----------------------------------------------------------------------------
(* Frame controller *)

\* What a call did, for the history variable last_call.
Call(op, path, rep, reloaded, switched, warned, raised) ==
    [op |-> op, path |-> path, rep_completed |-> rep, reloaded |-> reloaded,
     switched |-> switched, warned |-> warned, raised |-> raised]

\* the reload block forgetting to reset squat_state
reload_target_partial(self, fs, io) ==
    LET s1 == [self EXCEPT !.reload_counter = @ + 1]
    IN  IF s1.reload_counter >= RELOAD_INTERVAL
        THEN LET old_target == s1.target_exercise
                 ld == load_target_exercise(s1, fs, io)
                 s2 == IF old_target # ld.self.target_exercise
                       THEN [ld.self EXCEPT !.jumping_jack_state = NEUTRAL,
                                            !.left_knee_was_up = FALSE,
                                            !.right_knee_was_up = FALSE]
                       ELSE ld.self
             IN  [self |-> [s2 EXCEPT !.reload_counter = 0], fs |-> ld.fs,
                  reloaded |-> TRUE, switched |-> old_target # ld.self.target_exercise]
        ELSE [self |-> s1, fs |-> fs, reloaded |-> FALSE, switched |-> FALSE]

\* the reload block firing one frame late: > instead of >=
reload_target_late(self, fs, io) ==
    LET s1 == [self EXCEPT !.reload_counter = @ + 1]
    IN  IF s1.reload_counter > RELOAD_INTERVAL
        THEN LET old_target == s1.target_exercise
                 ld == load_target_exercise(s1, fs, io)
                 s2 == IF old_target # ld.self.target_exercise
                       THEN [ld.self EXCEPT !.jumping_jack_state = NEUTRAL,
                                            !.squat_state = STANDING,
                                            !.left_knee_was_up = FALSE,
                                            !.right_knee_was_up = FALSE]
                       ELSE ld.self
             IN  [self |-> [s2 EXCEPT !.reload_counter = 0], fs |-> ld.fs,
                  reloaded |-> TRUE, switched |-> old_target # ld.self.target_exercise]
        ELSE [self |-> s1, fs |-> fs, reloaded |-> FALSE, switched |-> FALSE]

\* the reload block adopting the new selector without resetting any state
reload_target_no_reset(self, fs, io) ==
    LET s1 == [self EXCEPT !.reload_counter = @ + 1]
    IN  IF s1.reload_counter >= RELOAD_INTERVAL
        THEN LET old_target == s1.target_exercise
                 ld == load_target_exercise(s1, fs, io)
             IN  [self |-> [ld.self EXCEPT !.reload_counter = 0], fs |-> ld.fs,
                  reloaded |-> TRUE, switched |-> old_target # ld.self.target_exercise]
        ELSE [self |-> s1, fs |-> fs, reloaded |-> FALSE, switched |-> FALSE]

\* the reload block restarting its counter without re-reading the selector
reload_target_unread(self, fs, io) ==
    LET s1 == [self EXCEPT !.reload_counter = @ + 1]
    IN  IF s1.reload_counter >= RELOAD_INTERVAL
        THEN [self |-> [s1 EXCEPT !.reload_counter = 0], fs |-> fs,
              reloaded |-> TRUE, switched |-> FALSE]
        ELSE [self |-> s1, fs |-> fs, reloaded |-> FALSE, switched |-> FALSE]

\* The reload block of process_frame.
reload_target(self, fs, io) ==
    LET s1 == [self EXCEPT !.reload_counter = @ + 1]
    IN  IF s1.reload_counter >= RELOAD_INTERVAL
        THEN LET old_target == s1.target_exercise
                 ld == load_target_exercise(s1, fs, io)
                 s2 == IF old_target # ld.self.target_exercise
                       THEN [ld.self EXCEPT !.jumping_jack_state = NEUTRAL,
                                            !.squat_state = STANDING,
                                            !.left_knee_was_up = FALSE,
                                            !.right_knee_was_up = FALSE]
                       ELSE ld.self
             IN  [self |-> [s2 EXCEPT !.reload_counter = 0], fs |-> ld.fs,
                  reloaded |-> TRUE, switched |-> old_target # ld.self.target_exercise]
        ELSE [self |-> s1, fs |-> fs, reloaded |-> FALSE, switched |-> FALSE]

\* the dispatch falling through to detect_squat when no branch matches
classify_default_squat(self, landmarks) ==
    IF self.target_exercise = JUMPING_JACK THEN detect_jumping_jack(self, landmarks)
    ELSE IF self.target_exercise = HIGH_KNEES THEN detect_high_knees(self, landmarks)
    ELSE detect_squat(self, landmarks)

\* The classifier dispatch of process_frame.
classify(self, landmarks) ==
    IF self.target_exercise = JUMPING_JACK THEN detect_jumping_jack(self, landmarks)
    ELSE IF self.target_exercise = SQUAT THEN detect_squat(self, landmarks)
    ELSE IF self.target_exercise = HIGH_KNEES THEN detect_high_knees(self, landmarks)
    ELSE [self |-> self, rep_completed |-> FALSE]

\* a high-knees cooldown one frame short
cooldown_for_short(target) ==
    IF target = HIGH_KNEES THEN HIGH_KNEES_COOLDOWN - 1 ELSE COOLDOWN_DURATION

\* a cooldown of 7 frames for the exercises other than high knees
cooldown_for_seven(target) ==
    IF target = HIGH_KNEES THEN HIGH_KNEES_COOLDOWN ELSE 7

\* The cooldown a counted rep starts.
cooldown_for(target) ==
    IF target = HIGH_KNEES THEN HIGH_KNEES_COOLDOWN ELSE COOLDOWN_DURATION

\* The rep branch taking only the counter of the active exercise from the store.
count_rep_merge(self, fs, io, reloaded, switched) ==
    LET ld == load_counts(self, fs, io)
        key == self.target_exercise
        s1 == [self EXCEPT !.rep_counts[key] = ld.self.rep_counts[key] + 1,
                           !.cooldown_frames = cooldown_for(key)]
        sv == save_counts(s1, ld.fs, io)
    IN  [self |-> sv.self, fs |-> sv.fs,
         call |-> Call("process_frame", "classified", TRUE, reloaded, switched, FALSE, FALSE)]

\* The rep branch without the reload of the stored counters.
count_rep_stale(self, fs, io, reloaded, switched) ==
    LET key == self.target_exercise
        s1 == [self EXCEPT !.rep_counts[key] = @ + 1, !.cooldown_frames = cooldown_for(key)]
        sv == save_counts(s1, fs, io)
    IN  [self |-> sv.self, fs |-> sv.fs,
         call |-> Call("process_frame", "classified", TRUE, reloaded, switched, FALSE, FALSE)]

\* The rep branch without the write of the counters.
count_rep_unsaved(self, fs, io, reloaded, switched) ==
    LET ld == load_counts(self, fs, io)
        key == self.target_exercise
    IN  [self |-> [ld.self EXCEPT !.rep_counts[key] = @ + 1, !.cooldown_frames = cooldown_for(key)],
         fs |-> ld.fs,
         call |-> Call("process_frame", "classified", TRUE, reloaded, switched, FALSE, FALSE)]

\* The branch "if rep_completed:" of process_frame.
count_rep(self, fs, io, reloaded, switched) ==
    LET ld == load_counts(self, fs, io)
        key == self.target_exercise
    IN  IF key \notin DOMAIN ld.self.rep_counts
        THEN \* KeyError leaves process_frame
             [self |-> ld.self, fs |-> ld.fs,
              call |-> Call("process_frame", "classified", TRUE, reloaded, switched, FALSE, TRUE)]
        ELSE LET s1 == [ld.self EXCEPT !.rep_counts[key] = @ + 1,
                                       !.cooldown_frames = cooldown_for(key)]
                 sv == save_counts(s1, ld.fs, io)
             IN  [self |-> sv.self, fs |-> sv.fs,
                  call |-> Call("process_frame", "classified", TRUE, reloaded, switched, FALSE, FALSE)]

\* the cooldown test taken one frame too long: ">= 0" for "> 0"
in_cooldown_inclusive(self) == self.cooldown_frames >= 0

\* The test "if self.cooldown_frames > 0:" that opens process_frame.
\* the cooldown test letting the last cooldown frame through
in_cooldown_above_one(self) == self.cooldown_frames > 1

in_cooldown(self) == self.cooldown_frames > 0

\* process_frame saving the in-memory counters after every classified frame
process_frame_saves(self, fs, landmarks, io) ==
    IF in_cooldown(self)
    THEN [self |-> [self EXCEPT !.cooldown_frames = @ - 1], fs |-> fs,
          call |-> Call("process_frame", "cooldown", FALSE, FALSE, FALSE, FALSE, FALSE)]
    ELSE
    LET rl == reload_target(self, fs, io)
        s == rl.self
        gated == s.target_exercise \in DOMAIN required_landmarks
        vis == check_landmarks_visible(landmarks, required_landmarks[s.target_exercise])
    IN  IF gated /\ ~vis.all_visible
        THEN LET warned == s.warning_counter + 1 >= WARNING_INTERVAL
             IN  [self |-> [s EXCEPT !.warning_counter = IF warned THEN 0 ELSE @ + 1],
                  fs |-> rl.fs,
                  call |-> Call("process_frame", "gated", FALSE, rl.reloaded, rl.switched, warned, FALSE)]
        ELSE
        LET s3 == IF gated THEN [s EXCEPT !.warning_counter = 0] ELSE s
            cl == classify(s3, landmarks)
        IN  IF cl.rep_completed
            THEN count_rep(cl.self, rl.fs, io, rl.reloaded, rl.switched)
            ELSE [self |-> cl.self, fs |-> save_counts(cl.self, rl.fs, io).fs,
                  call |-> Call("process_frame",
                                IF s3.target_exercise = NONE THEN "idle" ELSE "classified",
                                FALSE, rl.reloaded, rl.switched, FALSE, FALSE)]

\* process_frame testing the joints of the exercise that was active before the reload
process_frame_old_joints(self, fs, landmarks, io) ==
    IF in_cooldown(self)
    THEN [self |-> [self EXCEPT !.cooldown_frames = @ - 1], fs |-> fs,
          call |-> Call("process_frame", "cooldown", FALSE, FALSE, FALSE, FALSE, FALSE)]
    ELSE
    LET rl == reload_target(self, fs, io)
        s == rl.self
        gated == self.target_exercise \in DOMAIN required_landmarks
        vis == check_landmarks_visible(landmarks, required_landmarks[self.target_exercise])
    IN  IF gated /\ ~vis.all_visible
        THEN LET warned == s.warning_counter + 1 >= WARNING_INTERVAL
             IN  [self |-> [s EXCEPT !.warning_counter = IF warned THEN 0 ELSE @ + 1],
                  fs |-> rl.fs,
                  call |-> Call("process_frame", "gated", FALSE, rl.reloaded, rl.switched, warned, FALSE)]
        ELSE
        LET s3 == IF gated THEN [s EXCEPT !.warning_counter = 0] ELSE s
            cl == classify(s3, landmarks)
        IN  IF cl.rep_completed
            THEN count_rep(cl.self, rl.fs, io, rl.reloaded, rl.switched)
            ELSE [self |-> cl.self, fs |-> rl.fs,
                  call |-> Call("process_frame",
                                IF s3.target_exercise = NONE THEN "idle" ELSE "classified",
                                FALSE, rl.reloaded, rl.switched, FALSE, FALSE)]

\* process_frame returning from a cooldown frame without the decrement
process_frame_held(self, fs, landmarks, io) ==
    IF in_cooldown(self)
    THEN [self |-> self, fs |-> fs,
          call |-> Call("process_frame", "cooldown", FALSE, FALSE, FALSE, FALSE, FALSE)]
    ELSE
    LET rl == reload_target(self, fs, io)
        s == rl.self
        gated == s.target_exercise \in DOMAIN required_landmarks
        vis == check_landmarks_visible(landmarks, required_landmarks[s.target_exercise])
    IN  IF gated /\ ~vis.all_visible
        THEN LET warned == s.warning_counter + 1 >= WARNING_INTERVAL
             IN  [self |-> [s EXCEPT !.warning_counter = IF warned THEN 0 ELSE @ + 1],
                  fs |-> rl.fs,
                  call |-> Call("process_frame", "gated", FALSE, rl.reloaded, rl.switched, warned, FALSE)]
        ELSE
        LET s3 == IF gated THEN [s EXCEPT !.warning_counter = 0] ELSE s
            cl == classify(s3, landmarks)
        IN  IF cl.rep_completed
            THEN count_rep(cl.self, rl.fs, io, rl.reloaded, rl.switched)
            ELSE [self |-> cl.self, fs |-> rl.fs,
                  call |-> Call("process_frame",
                                IF s3.target_exercise = NONE THEN "idle" ELSE "classified",
                                FALSE, rl.reloaded, rl.switched, FALSE, FALSE)]

\* process_frame keeping the warning counter on a frame with every joint visible
process_frame_no_reset(self, fs, landmarks, io) ==
    IF in_cooldown(self)
    THEN [self |-> [self EXCEPT !.cooldown_frames = @ - 1], fs |-> fs,
          call |-> Call("process_frame", "cooldown", FALSE, FALSE, FALSE, FALSE, FALSE)]
    ELSE
    LET rl == reload_target(self, fs, io)
        s == rl.self
        gated == s.target_exercise \in DOMAIN required_landmarks
        vis == check_landmarks_visible(landmarks, required_landmarks[s.target_exercise])
    IN  IF gated /\ ~vis.all_visible
        THEN LET warned == s.warning_counter + 1 >= WARNING_INTERVAL
             IN  [self |-> [s EXCEPT !.warning_counter = IF warned THEN 0 ELSE @ + 1],
                  fs |-> rl.fs,
                  call |-> Call("process_frame", "gated", FALSE, rl.reloaded, rl.switched, warned, FALSE)]
        ELSE
        LET cl == classify(s, landmarks)
        IN  IF cl.rep_completed
            THEN count_rep(cl.self, rl.fs, io, rl.reloaded, rl.switched)
            ELSE [self |-> cl.self, fs |-> rl.fs,
                  call |-> Call("process_frame",
                                IF s.target_exercise = NONE THEN "idle" ELSE "classified",
                                FALSE, rl.reloaded, rl.switched, FALSE, FALSE)]

\* process_frame(landmarks): the detector and the files after the call.
process_frame(self, fs, landmarks, io) ==
    IF in_cooldown(self)
    THEN [self |-> [self EXCEPT !.cooldown_frames = @ - 1], fs |-> fs,
          call |-> Call("process_frame", "cooldown", FALSE, FALSE, FALSE, FALSE, FALSE)]
    ELSE
    LET rl == reload_target(self, fs, io)
        s == rl.self
        gated == s.target_exercise \in DOMAIN required_landmarks
        vis == check_landmarks_visible(landmarks, required_landmarks[s.target_exercise])
    IN  IF gated /\ ~vis.all_visible
        THEN LET warned == s.warning_counter + 1 >= WARNING_INTERVAL
             IN  [self |-> [s EXCEPT !.warning_counter = IF warned THEN 0 ELSE @ + 1],
                  fs |-> rl.fs,
                  call |-> Call("process_frame", "gated", FALSE, rl.reloaded, rl.switched, warned, FALSE)]
        ELSE
        LET s3 == IF gated THEN [s EXCEPT !.warning_counter = 0] ELSE s
            cl == classify(s3, landmarks)
        IN  IF cl.rep_completed
            THEN count_rep(cl.self, rl.fs, io, rl.reloaded, rl.switched)
            ELSE [self |-> cl.self, fs |-> rl.fs,
                  call |-> Call("process_frame",
                                IF s3.target_exercise = NONE THEN "idle" ELSE "classified",
                                FALSE, rl.reloaded, rl.switched, FALSE, FALSE)]

\* ExerciseDetector() followed by detector.load_counts(), as main() starts.
Construct(fs, io) ==
    LET s0 == [target_exercise |-> NONE, jumping_jack_state |-> NEUTRAL,
               squat_state |-> STANDING, left_knee_was_up |-> FALSE,
               right_knee_was_up |-> FALSE,
               rep_counts |-> [k \in {"jumping_jacks", "squats", "high_knees"} |-> 0],
               cooldown_frames |-> 0, reload_counter |-> 0, warning_counter |-> 0]
        lt == load_target_exercise(s0, fs, io)
    IN  load_counts(lt.self, lt.fs, io)

----------------------------------------------------------------------------
(* The state as records, and back *)

Self ==
    [target_exercise |-> target_exercise, jumping_jack_state |-> jumping_jack_state,
     squat_state |-> squat_state, left_knee_was_up |-> left_knee_was_up,
     right_knee_was_up |-> right_knee_was_up, rep_counts |-> rep_counts,
     cooldown_frames |-> cooldown_frames, reload_counter |-> reload_counter,
     warning_counter |-> warning_counter]

Fs == [rep_counter |-> rep_counter_json, target_exercise |-> target_exercise_json]

Becomes(self, fs) ==
    /\ target_exercise' = self.target_exercise
    /\ jumping_jack_state' = self.jumping_jack_state
    /\ squat_state' = self.squat_state
    /\ left_knee_was_up' = self.left_knee_was_up
    /\ right_knee_was_up' = self.right_knee_was_up
    /\ rep_counts' = self.rep_counts
    /\ cooldown_frames' = self.cooldown_frames
    /\ reload_counter' = self.reload_counter
    /\ warning_counter' = self.warning_counter
    /\ rep_counter_json' = fs.rep_counter
    /\ target_exercise_json' = fs.target_exercise

Starts(self, fs) ==
    /\ target_exercise = self.target_exercise
    /\ jumping_jack_state = self.jumping_jack_state
    /\ squat_state = self.squat_state
    /\ left_knee_was_up = self.left_knee_was_up
    /\ right_knee_was_up = self.right_knee_was_up
    /\ rep_counts = self.rep_counts
    /\ cooldown_frames = self.cooldown_frames
    /\ reload_counter = self.reload_counter
    /\ warning_counter = self.warning_counter
    /\ rep_counter_json = fs.rep_counter
    /\ target_exercise_json = fs.target_exercise

NoCall == Call("init", "none", FALSE, FALSE, FALSE, FALSE, FALSE)

Exercises == {JUMPING_JACK, SQUAT, HIGH_KNEES}

\* The stored count of an exercise: 0 when the file or the key is not there.
Stored(fs, k) ==
    IF fs.rep_counter.state = "present" /\ k \in DOMAIN fs.rep_counter.data
    THEN fs.rep_counter.data[k] ELSE 0

\* The ledger of a session that starts on the files fs.
Ledger(fs) ==
    [initial |-> [k \in Exercises |-> Stored(fs, k)],
     counted |-> [k \in Exercises |-> 0],
     returned |-> [k \in Exercises |-> 0],
     reset |-> FALSE,
     found |-> [rep_counter |-> fs.rep_counter.state,
                target_exercise |-> fs.target_exercise.state],
     stale |-> 0]

\* The ledger after a call of process_frame: a rep is counted when the rep
\* branch got past the increment.
Counting(call, target) ==
    IF call.rep_completed /\ ~call.raised
    THEN [ledger EXCEPT !.counted[target] = @ + 1]
    ELSE ledger

\* Neither the detector nor process_reps is in the middle of its store access.
Quiet == [pc |-> "idle", reps_pc |-> "idle", counts |-> <<>>, pending |-> NoCall]

----------------------------------------------------------------------------
(* Frames *)

AllVisible == [j \in Joints |-> 100]

\* A full landmark list (33 landmarks) with the four angles the classifiers read.
Pose(ls, rs, lk, rk) ==
    [len |-> 33, visibility |-> AllVisible,
     angle |-> [t \in {ShoulderL, ShoulderR, KneeL, KneeR} |->
                  IF t = ShoulderL THEN ls ELSE IF t = ShoulderR THEN rs
                  ELSE IF t = KneeL THEN lk ELSE rk]]

\* The same pose with joint j seen at visibility v, or with the list cut to n landmarks.
Seen(lm, j, v) == [lm EXCEPT !.visibility[j] = v]
Cut(lm, n) == [lm EXCEPT !.len = n]

----------------------------------------------------------------------------
(* Environment: the other writers of the two files *)

\* set_target_exercise of backend.py and set_target.py: both overwrite the file.
set_target_exercise(fs, target) ==
    [fs EXCEPT !.target_exercise = Present([k \in {"target"} |-> target])]

\* The counters process_reps writes when rep_counter.json does not exist.
default_counts ==
    [k \in {"jumping_jacks", "squats", "high_knees", "bicep_curls", "tricep_extensions",
             "lateral_raises"} |-> 0]

\* The three accesses process_reps makes to rep_counter.json, one at a time:
\* json.load, then seek(0) and truncate() (the file is empty, which no
\* reader can parse), then json.dump of the zeroed counters and the close.
reps_load(fs) == fs.rep_counter.data
reps_truncate(fs) == [fs EXCEPT !.rep_counter = Corrupt]
reps_dump(fs, counts) == [fs EXCEPT !.rep_counter = Present([k \in DOMAIN counts |-> 0])]

\* process_reps returning the counts without zeroing the file
process_reps_keep(fs) ==
    IF fs.rep_counter.state = "present"
    THEN [fs |-> fs, counts |-> fs.rep_counter.data, status |-> 200]
    ELSE IF fs.rep_counter.state = "missing"
    THEN [fs |-> [fs EXCEPT !.rep_counter = Present(default_counts)],
          counts |-> default_counts, status |-> 200]
    ELSE [fs |-> fs, counts |-> EmptyDict, status |-> 500]

\* process_reps of backend.py, run from its open to its close with no other
\* access to the file in between: the counts it returns and the file it leaves.
process_reps(fs) ==
    IF fs.rep_counter.state = "present"
    THEN LET counts == fs.rep_counter.data
             reset_counts == [k \in DOMAIN counts |-> 0]
         IN  [fs |-> [fs EXCEPT !.rep_counter = Present(reset_counts)],
              counts |-> counts, status |-> 200]
    ELSE IF fs.rep_counter.state = "missing"
    THEN [fs |-> [fs EXCEPT !.rep_counter = Present(default_counts)],
          counts |-> default_counts, status |-> 200]
    ELSE [fs |-> fs, counts |-> EmptyDict, status |-> 500]

----------------------------------------------------------------------------
(* Spec: the frame loop of main() with a working file system.  The camera   *)
(* delivers any frame of SpecFrames; the selector file is rewritten at any  *)
(* time.                                                                    *)

SpecPoses ==
    {Pose(a, a, a, a) : a \in {80, 130, 170}} \cup {Pose(130, 130, 80, 170), Pose(130, 130, 170, 80)}

SpecFrames ==
    SpecPoses
        \cup {Seen(Pose(170, 170, 170, 170), RIGHT_ANKLE, 50)}
        \cup UNION {{Seen(lm, LEFT_HIP, 49), Seen(lm, LEFT_WRIST, 49), Cut(lm, 25)} :
                      lm \in {Pose(80, 80, 80, 80), Pose(170, 170, 170, 170)}}

Targets == {"squats", "jumping_jacks", "high_knees"}

ZeroCounts == [k \in {"jumping_jacks", "squats", "high_knees"} |-> 0]

Total(counts) == counts["jumping_jacks"] + counts["squats"] + counts["high_knees"]

\* The window the cooldown is said to open: calls in which no rep may be counted.
SaidWindow(target) == IF target = HIGH_KNEES THEN 3 ELSE 10

Init ==
    /\ \E t \in Targets, c \in {Missing, Present(ZeroCounts)} :
         LET st == Construct([rep_counter |-> c,
                              target_exercise |-> Present([k \in {"target"} |-> t])], IoOk)
         IN  Starts(st.self, st.fs)
    /\ last_call = NoCall
    /\ window = 0
    /\ trace = <<>>
    /\ ledger = Ledger(Fs)
    /\ race = Quiet

Frame ==
    \E lm \in SpecFrames : \E r \in {process_frame(Self, Fs, lm, IoOk)} :
            /\ Total(r.self.rep_counts) <= MaxReps
            /\ r.self.warning_counter <= MaxHidden
            /\ Becomes(r.self, r.fs)
            /\ last_call' = r.call
            /\ window' = IF r.call.rep_completed THEN SaidWindow(r.self.target_exercise)
                         ELSE IF window > 0 THEN window - 1 ELSE 0
            /\ ledger' = Counting(r.call, r.self.target_exercise)
            /\ UNCHANGED <<trace, race>>

SetTarget ==
    \E t \in Targets :
        /\ Becomes(Self, set_target_exercise(Fs, t))
        /\ last_call' = Call("set_target_exercise", "none", FALSE, FALSE, FALSE, FALSE, FALSE)
        /\ UNCHANGED <<window, trace, ledger, race>>

Next == Frame \/ SetTarget

Spec == Init /\ [][Next]_vars

----------------------------------------------------------------------------
(* SpecStore: the frame loop with a working file system and the backend's   *)
(* process_reps collecting the counters between frames.  The store starts   *)
(* with counters already in it.                                             *)

StartCounts == {ZeroCounts, [k \in DOMAIN ZeroCounts |-> 1]}

\* The ledger after process_reps returned counts.
Returning(counts) ==
    [ledger EXCEPT !.returned = [k \in Exercises |->
                                   @[k] + (IF k \in DOMAIN counts THEN counts[k] ELSE 0)],
                   !.reset = TRUE]

InitStore ==
    /\ \E t \in Targets, c \in StartCounts :
         LET st == Construct([rep_counter |-> Present(c),
                              target_exercise |-> Present([k \in {"target"} |-> t])], IoOk)
         IN  Starts(st.self, st.fs)
    /\ last_call = NoCall
    /\ window = 0
    /\ trace = <<>>
    /\ ledger = Ledger(Fs)
    /\ race = Quiet

FrameStore ==
    \E lm \in SpecPoses : \E r \in {process_frame(Self, Fs, lm, IoOk)} :
            /\ Total(Counting(r.call, r.self.target_exercise).counted) <= MaxReps
            /\ Becomes(r.self, r.fs)
            /\ last_call' = r.call
            /\ window' = IF r.call.rep_completed THEN SaidWindow(r.self.target_exercise)
                         ELSE IF window > 0 THEN window - 1 ELSE 0
            /\ ledger' = Counting(r.call, r.self.target_exercise)
            /\ UNCHANGED <<trace, race>>

ProcessReps ==
    \E r \in {process_reps(Fs)} :
        /\ Becomes(Self, r.fs)
        /\ last_call' = Call("process_reps", "none", FALSE, FALSE, FALSE, FALSE, r.status # 200)
        /\ ledger' = Returning(r.counts)
        /\ UNCHANGED <<window, trace, race>>

NextStore == FrameStore \/ SetTarget \/ ProcessReps

SpecStore == InitStore /\ [][NextStore]_vars

----------------------------------------------------------------------------
(* SpecIO: the frame loop on a file system whose reads and writes can fail. *)
(* Each call of process_frame meets any outcome of IoOutcomes; the store    *)
(* starts missing, with the three counters, or with the squats counter      *)
(* only; nothing but the detector writes either file.  A call that raised   *)
(* ended the program: main() catches nothing around process_frame.  The     *)
(* selector file exists throughout, so the detector never creates it.       *)

IoOutcomes ==
    [target_read : {"ok", "fail"}, target_write : {"ok"},
     counts_read : {"ok", "fail"}, counts_write : {"ok", "fail"}]

IOStores == {Missing, Present(ZeroCounts), Present([k \in {"squats"} |-> 0])}

InitIO ==
    /\ \E t \in Targets, c \in IOStores, io \in IoOutcomes :
         LET st == Construct([rep_counter |-> c,
                              target_exercise |-> Present([k \in {"target"} |-> t])], io)
         IN  Starts(st.self, st.fs)
    /\ last_call = NoCall
    /\ window = 0
    /\ trace = <<>>
    /\ ledger = Ledger(Fs)
    /\ race = Quiet

FrameIO ==
    /\ ~last_call.raised
    /\ \E lm \in SpecPoses, io \in IoOutcomes : \E r \in {process_frame(Self, Fs, lm, io)} :
            /\ Total(Counting(r.call, r.self.target_exercise).counted) <= MaxIOReps
            /\ Becomes(r.self, r.fs)
            /\ last_call' = r.call
            /\ window' = IF r.call.rep_completed THEN SaidWindow(r.self.target_exercise)
                         ELSE IF window > 0 THEN window - 1 ELSE 0
            /\ ledger' = Counting(r.call, r.self.target_exercise)
            /\ UNCHANGED <<trace, race>>

SpecIO == InitIO /\ [][FrameIO]_vars

----------------------------------------------------------------------------
(* SpecRace: the detector (script.py) and the backend (backend.py) are two  *)
(* processes on one file with no lock.  The rep branch takes its three      *)
(* steps (load_counts, increment, save_counts) and process_reps its three   *)
(* accesses in any interleaving; reads and writes succeed.                  *)

InitRace ==
    /\ \E t \in Targets :
         LET st == Construct([rep_counter |-> Present(ZeroCounts),
                              target_exercise |-> Present([k \in {"target"} |-> t])], IoOk)
         IN  Starts(st.self, st.fs)
    /\ last_call = NoCall
    /\ window = 0
    /\ trace = <<>>
    /\ ledger = Ledger(Fs)
    /\ race = Quiet

\* A frame that completes no rep touches the store nowhere.
RaceFrame ==
    /\ race.pc = "idle"
    /\ \E lm \in SpecPoses : \E r \in {process_frame(Self, Fs, lm, IoOk)} :
            /\ ~r.call.rep_completed
            /\ Becomes(r.self, r.fs)
            /\ last_call' = r.call
            /\ UNCHANGED <<window, trace, ledger, race>>

\* A frame that completes a rep, up to and including self.load_counts().
RaceLoad ==
    /\ race.pc = "idle"
    /\ Total(ledger.counted) < MaxRaceReps
    /\ \E lm \in SpecPoses : \E r \in {process_frame(Self, Fs, lm, IoOk)} :
            /\ r.call.rep_completed
            /\ LET classified == [r.self EXCEPT !.rep_counts = rep_counts, !.cooldown_frames = 0]
                   ld == load_counts(classified, Fs, IoOk)
               IN  Becomes(ld.self, ld.fs)
            /\ race' = [race EXCEPT !.pc = "loaded", !.pending = r.call]
            /\ UNCHANGED <<last_call, window, trace, ledger>>

\* self.rep_counts[...] += 1 and the assignment of the cooldown.
RaceIncrement ==
    /\ race.pc = "loaded"
    /\ Becomes([Self EXCEPT !.rep_counts[target_exercise] = @ + 1,
                            !.cooldown_frames = cooldown_for(target_exercise)], Fs)
    /\ race' = [race EXCEPT !.pc = "incremented"]
    /\ ledger' = [ledger EXCEPT !.counted[target_exercise] = @ + 1]
    /\ UNCHANGED <<last_call, window, trace>>

\* self.save_counts() and the return of process_frame.
RaceSave ==
    /\ race.pc = "incremented"
    /\ \E sv \in {save_counts(Self, Fs, IoOk)} : Becomes(sv.self, sv.fs)
    /\ race' = [race EXCEPT !.pc = "idle", !.pending = NoCall]
    /\ last_call' = race.pending
    /\ UNCHANGED <<window, trace, ledger>>

RepsLoad ==
    /\ race.reps_pc = "idle"
    /\ rep_counter_json.state = "present"
    /\ race' = [race EXCEPT !.reps_pc = "loaded", !.counts = reps_load(Fs)]
    /\ UNCHANGED <<detector, files, last_call, window, trace, ledger>>

RepsTruncate ==
    /\ race.reps_pc = "loaded"
    /\ Becomes(Self, reps_truncate(Fs))
    /\ race' = [race EXCEPT !.reps_pc = "truncated"]
    /\ UNCHANGED <<last_call, window, trace, ledger>>

RepsDump ==
    /\ race.reps_pc = "truncated"
    /\ Becomes(Self, reps_dump(Fs, race.counts))
    /\ race' = [race EXCEPT !.reps_pc = "idle", !.counts = <<>>]
    /\ ledger' = Returning(race.counts)
    /\ last_call' = Call("process_reps", "none", FALSE, FALSE, FALSE, FALSE, FALSE)
    /\ UNCHANGED <<window, trace>>

NextRace ==
    \/ RaceFrame \/ RaceLoad \/ RaceIncrement \/ RaceSave
    \/ RepsLoad \/ RepsTruncate \/ RepsDump

SpecRace == InitRace /\ [][NextRace]_vars

----------------------------------------------------------------------------
(* SpecWarn: the frame loop with a working file system and a camera that    *)
(* loses the person for any number of frames in a row; the selector file is *)
(* left alone.                                                              *)

WarnFrames ==
    {Pose(80, 80, 80, 80), Pose(170, 170, 170, 170),
     Seen(Pose(170, 170, 170, 170), LEFT_HIP, 49), Cut(Pose(170, 170, 170, 170), 25)}

FrameWarn ==
    \E lm \in WarnFrames : \E r \in {process_frame(Self, Fs, lm, IoOk)} :
            /\ Total(Counting(r.call, r.self.target_exercise).counted) <= MaxWarnReps
            /\ Becomes(r.self, r.fs)
            /\ last_call' = r.call
            /\ ledger' = Counting(r.call, r.self.target_exercise)
            /\ UNCHANGED <<window, trace, race>>

SpecWarn == Init /\ [][FrameWarn]_vars

----------------------------------------------------------------------------
(* SpecLoad: main() from before detector = ExerciseDetector().  The         *)
(* selector file starts missing, unparsable, without a "target" key or with *)
(* any exercise the backend's set_target_exercise accepts, and the backend  *)
(* rewrites it at any time; the counter store starts missing or zeroed;     *)
(* reads of the selector and writes of either file can fail.                *)

\* valid_exercises of set_target_exercise in backend.py
BackendTargets ==
    {"squats", "jumping_jacks", "high_knees", "bicep_curls", "tricep_extensions",
     "lateral_raises"}

LoadOutcomes ==
    [target_read : {"ok", "fail"}, target_write : {"ok", "fail"},
     counts_read : {"ok"}, counts_write : {"ok", "fail"}]

LoadPoses == {Pose(80, 80, 80, 80), Pose(170, 170, 170, 170)}

\* The fields of ExerciseDetector before load_target_exercise has run.
Fresh ==
    [target_exercise |-> NONE, jumping_jack_state |-> NEUTRAL,
     squat_state |-> STANDING, left_knee_was_up |-> FALSE,
     right_knee_was_up |-> FALSE,
     rep_counts |-> [k \in {"jumping_jacks", "squats", "high_knees"} |-> 0],
     cooldown_frames |-> 0, reload_counter |-> 0, warning_counter |-> 0]

\* main() has not constructed the detector yet.
Unstarted == Call("main", "none", FALSE, FALSE, FALSE, FALSE, FALSE)

InitLoad ==
    /\ \E t \in {Missing, Corrupt, Present(EmptyDict)}
                  \cup {Present([k \in {"target"} |-> x]) : x \in BackendTargets},
          c \in {Missing, Present(ZeroCounts)} :
         Starts(Fresh, [rep_counter |-> c, target_exercise |-> t])
    /\ last_call = Unstarted
    /\ window = 0
    /\ trace = <<>>
    /\ ledger = Ledger(Fs)
    /\ race = Quiet

\* detector = ExerciseDetector(); detector.load_counts()
StartLoad ==
    /\ last_call = Unstarted
    /\ \E io \in LoadOutcomes : \E r \in {Construct(Fs, io)} : Becomes(r.self, r.fs)
    /\ last_call' = NoCall
    /\ UNCHANGED <<window, trace, ledger, race>>

FrameLoad ==
    /\ last_call # Unstarted
    /\ \E lm \in LoadPoses, io \in LoadOutcomes : \E r \in {process_frame(Self, Fs, lm, io)} :
            /\ Total(Counting(r.call, r.self.target_exercise).counted) <= MaxLoadReps
            /\ Becomes(r.self, r.fs)
            /\ last_call' = r.call
            /\ ledger' = Counting(r.call, r.self.target_exercise)
            /\ UNCHANGED <<window, trace, race>>

SetTargetLoad ==
    \E t \in BackendTargets :
        /\ Becomes(Self, set_target_exercise(Fs, t))
        /\ UNCHANGED <<last_call, window, trace, ledger, race>>

NextLoad == StartLoad \/ FrameLoad \/ SetTargetLoad

SpecLoad == InitLoad /\ [][NextLoad]_vars

----------------------------------------------------------------------------
(* SpecNone: process_frame as a method of a detector whose caller can put   *)
(* target_exercise back to ExerciseType.NONE, the field's declared default. *)
(* main() never does so and load_target_exercise never leaves NONE in       *)
(* place; the specification exists for the branch of process_frame that     *)
(* handles that value.  Frames are those of Spec, the selector file is left *)
(* alone.                                                                   *)

AssignNone ==
    /\ target_exercise # NONE
    /\ Becomes([Self EXCEPT !.target_exercise = NONE], Fs)
    /\ last_call' = Call("assign", "none", FALSE, FALSE, FALSE, FALSE, FALSE)
    /\ UNCHANGED <<window, trace, ledger, race>>

NextNone == Frame \/ AssignNone

SpecNone == Init /\ [][NextNone]_vars

----------------------------------------------------------------------------
(* SpecAdopt: the frame loop with a working file system, every joint        *)
(* visible, and the selector file changed at any time.  ledger.stale counts *)
(* the calls of process_frame outside cooldown made since the latest change *)
(* of the file while the detector still had another selector, the adopting  *)
(* call included.                                                           *)

\* The exercise target_exercise.json names.
StoredTarget(fs) == ExerciseOf(fs.target_exercise.data["target"])

\* The count of stale calls after a call of process_frame that went from
\* the detector before to the call's result.
Staleness(before, call) ==
    IF call.path = "cooldown" THEN ledger.stale
    ELSE IF before.target_exercise # StoredTarget(Fs) THEN ledger.stale + 1
    ELSE 0

FrameAdopt ==
    \E lm \in SpecPoses : \E r \in {process_frame(Self, Fs, lm, IoOk)} :
            /\ Total(Counting(r.call, r.self.target_exercise).counted) <= MaxAdoptReps
            /\ Becomes(r.self, r.fs)
            /\ last_call' = r.call
            /\ ledger' = [Counting(r.call, r.self.target_exercise) EXCEPT
                             !.stale = Staleness(Self, r.call)]
            /\ UNCHANGED <<window, trace, race>>

\* The selector file is changed to another recognised exercise.
ChangeTarget ==
    \E t \in Targets :
        /\ ExerciseOf(t) # StoredTarget(Fs)
        /\ Becomes(Self, set_target_exercise(Fs, t))
        /\ last_call' = Call("set_target_exercise", "none", FALSE, FALSE, FALSE, FALSE, FALSE)
        /\ ledger' = [ledger EXCEPT !.stale = 0]
        /\ UNCHANGED <<window, trace, race>>

NextAdopt == FrameAdopt \/ ChangeTarget

SpecAdopt == Init /\ [][NextAdopt]_vars

----------------------------------------------------------------------------
(* SpecCool: the frame loop with a working file system and a camera that    *)
(* never stops delivering frames, as the while-loop of main() reads one     *)
(* frame after the other.  window counts the calls of process_frame made    *)
(* since the latest counted rep (Far when there are that many or no rep     *)
(* yet); trace holds the latest counted rep: its exercise, the cooldown it  *)
(* set, how many calls after the rep before it came, and that rep's         *)
(* exercise.  SpecApart is the same loop with the selector file rewritten   *)
(* at any time, and frames that are all visible.                            *)

\* From this many calls on the distance to the latest rep is not told apart.
Far == 13

CoolFrames == SpecPoses \cup {Cut(Pose(170, 170, 170, 170), 25)}

InitCool ==
    /\ \E t \in Targets :
         LET st == Construct([rep_counter |-> Present(ZeroCounts),
                              target_exercise |-> Present([k \in {"target"} |-> t])], IoOk)
         IN  Starts(st.self, st.fs)
    /\ last_call = NoCall
    /\ window = Far
    /\ trace = <<>>
    /\ ledger = Ledger(Fs)
    /\ race = Quiet

\* The record of the rep a call has just counted.
Rep(self) ==
    [exercise |-> self.target_exercise,
     cooldown |-> self.cooldown_frames,
     apart |-> IF trace = <<>> THEN 0 ELSE IF window + 1 > Far THEN Far ELSE window + 1,
     after |-> IF trace = <<>> THEN NONE ELSE trace[1].exercise]

CoolFrame(lm) ==
    \E r \in {process_frame(Self, Fs, lm, IoOk)} :
        /\ Total(Counting(r.call, r.self.target_exercise).counted) <= MaxCoolReps
        /\ r.self.warning_counter <= MaxHidden
        /\ Becomes(r.self, r.fs)
        /\ last_call' = r.call
        /\ window' = IF r.call.rep_completed THEN 0
                     ELSE IF window < Far THEN window + 1 ELSE Far
        /\ trace' = IF r.call.rep_completed THEN <<Rep(r.self)>> ELSE trace
        /\ ledger' = Counting(r.call, r.self.target_exercise)
        /\ UNCHANGED race

FrameCool == \E lm \in CoolFrames : CoolFrame(lm)

SpecCool == InitCool /\ [][FrameCool]_vars /\ WF_vars(FrameCool)

FrameApart == \E lm \in SpecPoses : CoolFrame(lm)

NextApart == FrameApart \/ SetTarget

SpecApart == InitCool /\ [][NextApart]_vars

----------------------------------------------------------------------------
(* SpecDetect: a detector whose classifier is called directly, as a unit    *)
(* test does, for at most MaxCalls calls; trace keeps each call's frame and *)
(* returned value.                                                          *)

JackFrames ==
    {Pose(l, r, 170, 170) : l, r \in {90, 110, 150}}
        \cup {Pose(100, 100, 170, 170), Pose(140, 140, 170, 170)}

SquatFrames ==
    {Pose(150, 150, a, a) : a \in {110, 120, 130, 160, 170}}
        \cup {Pose(150, 150, 100, 140), Pose(150, 150, 110, 170), Pose(150, 150, 150, 170)}

KneeFrames ==
    {Pose(150, 150, l, r) : l, r \in {80, 130, 170}}
        \cup {Pose(150, 150, 90, 90), Pose(150, 150, 140, 140)}

Called(op, lm, r) ==
    /\ Len(trace) < MaxCalls
    /\ Becomes(r.self, Fs)
    /\ last_call' = Call(op, "classified", r.rep_completed, FALSE, FALSE, FALSE, FALSE)
    /\ trace' = Append(trace, [landmarks |-> lm, rep_completed |-> r.rep_completed])
    /\ UNCHANGED <<window, ledger, race>>

CallJumpingJack ==
    /\ target_exercise = JUMPING_JACK
    /\ \E lm \in JackFrames : Called("detect_jumping_jack", lm, detect_jumping_jack(Self, lm))

CallSquat ==
    /\ target_exercise = SQUAT
    /\ \E lm \in SquatFrames : Called("detect_squat", lm, detect_squat(Self, lm))

CallHighKnees ==
    /\ target_exercise = HIGH_KNEES
    /\ \E lm \in KneeFrames : Called("detect_high_knees", lm, detect_high_knees(Self, lm))

NextDetect == CallJumpingJack \/ CallSquat \/ CallHighKnees

SpecDetect == Init /\ [][NextDetect]_vars

----------------------------------------------------------------------------
(* SpecE2E: a session of at most MaxFrames frames through process_frame,    *)
(* all joints visible, selector "squats", counters zero in memory and in    *)
(* the store.                                                               *)

E2EFrames == {Pose(150, 150, a, a) : a \in {110, 115, 130, 165, 170}}

InitE2E ==
    /\ LET st == Construct([rep_counter |-> Present(ZeroCounts),
                            target_exercise |-> Present([k \in {"target"} |-> "squats"])], IoOk)
       IN  Starts(st.self, st.fs)
    /\ last_call = NoCall
    /\ window = 0
    /\ trace = <<>>
    /\ ledger = Ledger(Fs)
    /\ race = Quiet

FrameE2E ==
    \E lm \in E2EFrames : \E r \in {process_frame(Self, Fs, lm, IoOk)} :
            /\ Len(trace) < MaxFrames
            /\ Becomes(r.self, r.fs)
            /\ last_call' = r.call
            /\ trace' = Append(trace, [landmarks |-> lm, rep_completed |-> r.call.rep_completed])
            /\ ledger' = Counting(r.call, r.self.target_exercise)
            /\ UNCHANGED <<window, race>>

SpecE2E == InitE2E /\ [][FrameE2E]_vars

----------------------------------------------------------------------------
(* Readings of the history *)

Calls == 1..Len(trace)
KneeSum(j) == trace[j].landmarks.angle[KneeL] + trace[j].landmarks.angle[KneeR]
LeftKnee(j) == trace[j].landmarks.angle[KneeL]
RightKnee(j) == trace[j].landmarks.angle[KneeR]
LeftShoulder(j) == trace[j].landmarks.angle[ShoulderL]
RightShoulder(j) == trace[j].landmarks.angle[ShoulderR]
Reported == Cardinality({j \in Calls : trace[j].rep_completed})
KneeSums == [j \in Calls |-> KneeSum(j)]
Shoulders == [j \in Calls |-> LeftShoulder(j)]

----------------------------------------------------------------------------
(* Claims checked under SpecDetect *)

\* C1: a call of detect_squat (detect_jumping_jack) reports a rep if and only
\* if the state before the call was Squatting (ArmsUp) and the call moves it
\* to Standing (Neutral); the transition into the active state reports none.
C1_RepIffActiveToNeutral ==
    [][ /\ last_call'.op = "detect_squat" =>
             (last_call'.rep_completed <=>
                 (squat_state = SQUATTING /\ squat_state' = STANDING))
        /\ last_call'.op = "detect_jumping_jack" =>
             (last_call'.rep_completed <=>
                 (jumping_jack_state = ARMS_UP /\ jumping_jack_state' = NEUTRAL)) ]_vars

\* a squat call has just moved Squatting to Standing and reported the rep
C1_Witness ==
    /\ last_call.op = "detect_squat"
    /\ last_call.rep_completed
    /\ squat_state = STANDING
    /\ Len(trace) >= 2

\* C3: from Standing, call j of detect_squat reports a rep exactly when its
\* average knee angle is above 160 and an earlier call was below 120 with no
\* call above 160 in between; 170, 110, 170 reports one rep and 170, 130,
\* 170 none.
C3_SquatOneRepPerCycle ==
    target_exercise = SQUAT =>
        /\ \A j \in Calls :
              trace[j].rep_completed <=>
                  /\ KneeSum(j) > 320
                  /\ \E i \in 1..(j - 1) :
                        /\ KneeSum(i) < 240
                        /\ \A k \in (i + 1)..(j - 1) : KneeSum(k) <= 320
        /\ KneeSums = <<340, 220, 340>> => Reported = 1
        /\ KneeSums = <<340, 260, 340>> => Reported = 0

\* the calls 170, 110, 170 were made and the third reported the rep
C3_Witness ==
    /\ target_exercise = SQUAT
    /\ KneeSums = <<340, 220, 340>>
    /\ trace[3].rep_completed
    /\ ~trace[2].rep_completed

\* C4: from Neutral, with equal left and right shoulder angles, call j of
\* detect_jumping_jack reports a rep exactly when its angle is above 140 and
\* an earlier call was below 100 with no call above 140 in between; 150, 90,
\* 150 reports one rep and 150, 110, 150 none.
C4_JackOneRepPerCycle ==
    (target_exercise = JUMPING_JACK /\ \A j \in Calls : LeftShoulder(j) = RightShoulder(j)) =>
        /\ \A j \in Calls :
              trace[j].rep_completed <=>
                  /\ LeftShoulder(j) > 140
                  /\ \E i \in 1..(j - 1) :
                        /\ LeftShoulder(i) < 100
                        /\ \A k \in (i + 1)..(j - 1) : LeftShoulder(k) <= 140
        /\ Shoulders = <<150, 90, 150>> => Reported = 1
        /\ Shoulders = <<150, 110, 150>> => Reported = 0

\* the calls 150, 90, 150 (both sides) were made and the third reported the rep
C4_Witness ==
    /\ target_exercise = JUMPING_JACK
    /\ Shoulders = <<150, 90, 150>>
    /\ \A j \in Calls : LeftShoulder(j) = RightShoulder(j)
    /\ trace[3].rep_completed

\* One leg's two-state machine, as the claim words it.
LegAfter(was_up, angle) ==
    IF ~was_up /\ angle < 90 THEN TRUE
    ELSE IF was_up /\ angle > 140 THEN FALSE
    ELSE was_up

\* Call j brings this leg down after it was up: it is above 140 and an earlier
\* call was below 90 with no call above 140 in between.
LegCycleEnds(a(_), j) ==
    /\ a(j) > 140
    /\ \E i \in 1..(j - 1) : a(i) < 90 /\ \A k \in (i + 1)..(j - 1) : a(k) <= 140

\* C5: in every call of detect_high_knees each flag's new value depends only
\* on its old value and its own knee's angle, the call reports a rep exactly
\* when at least one flag goes from true to false, and so a call reports a
\* rep exactly when it ends a full cycle of the left or of the right leg.
C5_LegsIndependent ==
    /\ [][ last_call'.op = "detect_high_knees" =>
             /\ left_knee_was_up' = LegAfter(left_knee_was_up, trace'[Len(trace')].landmarks.angle[KneeL])
             /\ right_knee_was_up' = LegAfter(right_knee_was_up, trace'[Len(trace')].landmarks.angle[KneeR])
             /\ last_call'.rep_completed <=>
                   \/ left_knee_was_up /\ ~left_knee_was_up'
                   \/ right_knee_was_up /\ ~right_knee_was_up' ]_vars
    /\ [](target_exercise = HIGH_KNEES =>
             \A j \in Calls :
                 trace[j].rep_completed <=>
                     (LegCycleEnds(LeftKnee, j) \/ LegCycleEnds(RightKnee, j)))

\* the left leg has just come down and reported its rep while the right knee is up
C5_Witness ==
    /\ last_call.op = "detect_high_knees"
    /\ last_call.rep_completed
    /\ ~left_knee_was_up
    /\ right_knee_was_up
    /\ LeftKnee(Len(trace)) > 140
    /\ RightKnee(Len(trace)) < 90

----------------------------------------------------------------------------
(* Claims checked under SpecE2E *)

\* C2: from squats 0 in memory and in the store, selector "squats", cooldown
\* 0 and all joints visible, the five frames with average knee angles 170,
\* 115, 110, 165, 170 record exactly one squat rep, and the squats counter is
\* 1 in memory and in the store.
C2_EndToEndOneSquat ==
    KneeSums = <<340, 230, 220, 330, 340>> =>
        /\ Reported = 1
        /\ rep_counts["squats"] = 1
        /\ rep_counter_json.state = "present"
        /\ rep_counter_json.data["squats"] = 1

\* the five frames were fed and the fourth counted the rep
C2_Witness ==
    /\ KneeSums = <<340, 230, 220, 330, 340>>
    /\ trace[4].rep_completed
    /\ last_call.path = "cooldown"

----------------------------------------------------------------------------
(* Claims checked under Spec *)

\* The step is the call process_frame(lm).
FrameOf(lm) ==
    \E r \in {process_frame(Self, Fs, lm, IoOk)} :
        Becomes(r.self, r.fs) /\ last_call' = r.call

\* A joint the exercise requires is absent from the frame or seen below 0.5.
Hidden(lm, exercise) ==
    /\ exercise \in DOMAIN required_landmarks
    /\ \E j \in required_landmarks[exercise] :
          \/ j >= lm.len
          \/ lm.visibility[j] # NoVisibility /\ lm.visibility[j] < 50

machines == <<jumping_jack_state, squat_state, left_knee_was_up, right_knee_was_up>>

\* C6: when both flags are WasUp before a frame and both knee angles are
\* above 140 in it, the high_knees counter increases by two in that frame.
C6_BothLegsCountTwo ==
    [][ \A lm \in SpecFrames :
          ( /\ cooldown_frames = 0
            /\ target_exercise = HIGH_KNEES
            /\ target_exercise' = HIGH_KNEES
            /\ left_knee_was_up /\ right_knee_was_up
            /\ lm.angle[KneeL] > 140 /\ lm.angle[KneeR] > 140
            /\ ~Hidden(lm, HIGH_KNEES)
            /\ FrameOf(lm) )
          => rep_counts'["high_knees"] = rep_counts["high_knees"] + 2 ]_vars

\* C7: after a frame in which process_frame counts a rep, no rep is counted
\* in any of the next C calls of process_frame, C = 3 for High Knees and 10
\* otherwise (window counts the calls left of those C).
C7_NoRepInsideWindow ==
    [][ (last_call'.op = "process_frame" /\ last_call'.rep_completed) => window = 0 ]_vars

\* the second call after a counted high-knees rep has been made, one call of the window is left
C7_Witness ==
    /\ target_exercise = HIGH_KNEES
    /\ rep_counts["high_knees"] >= 1
    /\ window = 1
    /\ last_call.op = "process_frame"
    /\ ~last_call.rep_completed

\* C8: in the call whose reload finds a different selector, all four
\* per-exercise states are reset before any classification: the call counts
\* no rep, the machines of the exercises other than the new one are initial
\* after it, a Squat machine is in Squatting after it only when this frame's
\* average knee angle is below 120; and the machine of an exercise that is
\* not the active one is initial in every state.
C8_SwitchResetsMachines ==
    /\ [][ target_exercise' # target_exercise =>
             /\ last_call'.op = "process_frame"
             /\ last_call'.switched
             /\ ~last_call'.rep_completed
             /\ rep_counts' = rep_counts
             /\ cooldown_frames' = 0
             /\ last_call'.path = "gated" =>
                   /\ jumping_jack_state' = NEUTRAL /\ squat_state' = STANDING
                   /\ ~left_knee_was_up' /\ ~right_knee_was_up'
             /\ \A lm \in SpecFrames :
                   (squat_state' = SQUATTING /\ FrameOf(lm)) =>
                       lm.angle[KneeL] + lm.angle[KneeR] < 240 ]_vars
    /\ [] /\ target_exercise # JUMPING_JACK => jumping_jack_state = NEUTRAL
          /\ target_exercise # SQUAT => squat_state = STANDING
          /\ target_exercise # HIGH_KNEES => ~left_knee_was_up /\ ~right_knee_was_up

\* the selector has just switched to jumping jacks and the frame was classified
C8_Witness ==
    /\ last_call.op = "process_frame"
    /\ last_call.switched
    /\ last_call.path = "classified"
    /\ target_exercise = JUMPING_JACK
    /\ squat_state = STANDING

\* C9 as claimed: on a non-cooldown frame in which a joint required by the
\* active exercise is absent or seen below 0.5, process_frame invokes no
\* classifier and leaves every per-exercise state, the cooldown counter and
\* the rep counters (in memory and in the store) unchanged.
C9_GateLeavesAllUnchanged ==
    [][ \A lm \in SpecFrames :
          (cooldown_frames = 0 /\ Hidden(lm, target_exercise') /\ FrameOf(lm)) =>
              /\ last_call'.path = "gated"
              /\ UNCHANGED <<machines, cooldown_frames, rep_counts, rep_counter_json>> ]_vars

\* C9 as amended: ... the per-exercise states are unchanged when the frame's
\* reload found the same selector, and are the initial ones when it found a
\* different one.
C9_GateSkipsClassification ==
    [][ \A lm \in SpecFrames :
          (cooldown_frames = 0 /\ Hidden(lm, target_exercise') /\ FrameOf(lm)) =>
              /\ last_call'.path = "gated"
              /\ ~last_call'.rep_completed
              /\ UNCHANGED <<cooldown_frames, rep_counts, rep_counter_json>>
              /\ IF target_exercise' = target_exercise
                 THEN UNCHANGED machines
                 ELSE machines' = <<NEUTRAL, STANDING, FALSE, FALSE>> ]_vars

\* a frame with a hidden joint has just been skipped while a knee was up
C9_Witness ==
    /\ last_call.op = "process_frame"
    /\ last_call.path = "gated"
    /\ target_exercise = HIGH_KNEES
    /\ left_knee_was_up
    /\ warning_counter > 0

\* C10: the cooldown counter is never negative; while it is positive a call
\* of process_frame decrements it by exactly one and classifies nothing; it
\* becomes positive only in a call of process_frame that counts a rep.
C10_CooldownCounter ==
    /\ [](cooldown_frames >= 0)
    /\ [][ /\ (last_call'.op = "process_frame" /\ cooldown_frames > 0) =>
                /\ cooldown_frames' = cooldown_frames - 1
                /\ last_call'.path = "cooldown"
                /\ ~last_call'.rep_completed
                /\ UNCHANGED <<machines, rep_counts>>
           /\ cooldown_frames' > cooldown_frames =>
                /\ last_call'.op = "process_frame"
                /\ last_call'.rep_completed
                /\ cooldown_frames = 0
                /\ Total(rep_counts') = Total(rep_counts) + 1 ]_vars

\* a cooldown frame has just been taken and the counter is still positive
C10_Witness ==
    /\ last_call.op = "process_frame"
    /\ last_call.path = "cooldown"
    /\ cooldown_frames > 0
    /\ Total(rep_counts) >= 1

----------------------------------------------------------------------------
(* Hysteresis, checked under SpecDetect *)

\* The angles of the latest call of a classifier.
Latest == trace[Len(trace)].landmarks.angle

\* A leg's angle is in the dead band or on the side the leg is already on.
LegCalm(a, was_up) == a \in 90..140 \/ (was_up /\ a < 90) \/ (~was_up /\ a > 140)

\* C19: a call whose signal is inside the dead band (jumping jack: neither
\* both shoulders below 100 nor both above 140; squat: twice the average in
\* 240..320; a leg: 90..140), or on the side of the threshold the machine is
\* already on, leaves that machine's state as it was and reports no rep (for
\* high knees: each such leg keeps its flag, and no rep when both legs are so).
C19_EdgeTriggered ==
    [][ /\ last_call'.op = "detect_jumping_jack" =>
             LET up == Latest'[ShoulderL] < 100 /\ Latest'[ShoulderR] < 100
                 down == Latest'[ShoulderL] > 140 /\ Latest'[ShoulderR] > 140
             IN  ((~up /\ ~down) \/ (jumping_jack_state = ARMS_UP /\ up)
                     \/ (jumping_jack_state = NEUTRAL /\ down)) =>
                     jumping_jack_state' = jumping_jack_state /\ ~last_call'.rep_completed
        /\ last_call'.op = "detect_squat" =>
             LET sum == Latest'[KneeL] + Latest'[KneeR]
             IN  (sum \in 240..320 \/ (squat_state = STANDING /\ sum > 320)
                     \/ (squat_state = SQUATTING /\ sum < 240)) =>
                     squat_state' = squat_state /\ ~last_call'.rep_completed
        /\ last_call'.op = "detect_high_knees" =>
             LET left == LegCalm(Latest'[KneeL], left_knee_was_up)
                 right == LegCalm(Latest'[KneeR], right_knee_was_up)
             IN  /\ left => left_knee_was_up' = left_knee_was_up
                 /\ right => right_knee_was_up' = right_knee_was_up
                 /\ (left /\ right) => ~last_call'.rep_completed ]_vars

\* Squatting, then a call at exactly 160 degrees: still Squatting, no rep.
C19_Witness ==
    /\ last_call.op = "detect_squat"
    /\ Len(trace) >= 2
    /\ KneeSum(Len(trace) - 1) < 240
    /\ KneeSum(Len(trace)) = 320
    /\ squat_state = SQUATTING
    /\ ~last_call.rep_completed

----------------------------------------------------------------------------
(* Thresholds of the classifiers, checked under SpecDetect *)

\* C36: a call of detect_jumping_jack moves Neutral to ArmsUp only when the
\* left and the right shoulder angle are both below 100, and moves ArmsUp to
\* Neutral, reporting the rep, only when both are above 140; a call in which
\* one shoulder only is across the threshold that counts for the present
\* state leaves the state as it was and reports no rep.
C36_JackNeedsBothSides ==
    [][last_call'.op = "detect_jumping_jack" =>
          LET l == Latest'[ShoulderL]
              r == Latest'[ShoulderR]
          IN  /\ (jumping_jack_state = NEUTRAL /\ jumping_jack_state' = ARMS_UP) =>
                    l < 100 /\ r < 100
              /\ ((jumping_jack_state = ARMS_UP /\ jumping_jack_state' = NEUTRAL)
                     \/ last_call'.rep_completed) => l > 140 /\ r > 140
              /\ (jumping_jack_state = NEUTRAL /\ (l < 100) # (r < 100)) =>
                    jumping_jack_state' = NEUTRAL /\ ~last_call'.rep_completed
              /\ (jumping_jack_state = ARMS_UP /\ (l > 140) # (r > 140)) =>
                    jumping_jack_state' = ARMS_UP /\ ~last_call'.rep_completed]_vars

\* Both arms went up, then a call with the left arm alone down: still ArmsUp, no rep.
C36_Witness ==
    /\ last_call.op = "detect_jumping_jack"
    /\ Len(trace) >= 2
    /\ LeftShoulder(Len(trace) - 1) < 100 /\ RightShoulder(Len(trace) - 1) < 100
    /\ LeftShoulder(Len(trace)) > 140 /\ RightShoulder(Len(trace)) \in 100..140
    /\ jumping_jack_state = ARMS_UP
    /\ ~last_call.rep_completed

\* C37: a call of detect_squat in Standing enters Squatting exactly when the
\* average of the two knee angles is below 120, and in Squatting returns to
\* Standing exactly when the average is above 160 (twice the average is
\* compared with 240 and 320): an average of exactly 120 or 160 moves
\* nothing, nor does one knee below 120 when the average is 120 or more.
C37_SquatUsesStrictAverage ==
    [][last_call'.op = "detect_squat" =>
          LET sum == Latest'[KneeL] + Latest'[KneeR]
          IN  /\ squat_state = STANDING => (squat_state' = SQUATTING <=> sum < 240)
              /\ squat_state = SQUATTING => (squat_state' = STANDING <=> sum > 320)]_vars

\* Standing, then a call with one knee at 100 and the other at 140: still Standing.
C37_Witness ==
    /\ last_call.op = "detect_squat"
    /\ Len(trace) = 1
    /\ LeftKnee(1) < 120
    /\ KneeSum(1) = 240
    /\ squat_state = STANDING

----------------------------------------------------------------------------
(* The reload cadence, checked under Spec *)

\* C20: 0 <= reload_counter < 30 after every call; a frame in cooldown
\* leaves the counter alone and re-reads nothing; every other frame adds one
\* to it, and the frame that brings it to 30 re-reads the selector from
\* target_exercise.json and puts the counter back to 0, so the selector is
\* re-read on every 30th frame outside cooldown and on no other.
C20_ReloadCadence ==
    /\ [](reload_counter \in 0..29)
    /\ [][last_call'.op = "process_frame" =>
            IF cooldown_frames > 0
            THEN reload_counter' = reload_counter /\ ~last_call'.reloaded
                    /\ target_exercise' = target_exercise
            ELSE IF reload_counter = 29
            THEN /\ reload_counter' = 0 /\ last_call'.reloaded
                 /\ target_exercise' = ExerciseOf(target_exercise_json.data["target"])
            ELSE /\ reload_counter' = reload_counter + 1 /\ ~last_call'.reloaded
                 /\ target_exercise' = target_exercise]_vars

\* The 30th frame outside cooldown has just re-read a selector that changed.
C20_Witness ==
    /\ last_call.op = "process_frame"
    /\ last_call.reloaded /\ last_call.switched
    /\ reload_counter = 0
    /\ ledger.counted[SQUAT] + ledger.counted[JUMPING_JACK] + ledger.counted[HIGH_KNEES] > 0

----------------------------------------------------------------------------
(* The rep branch and the store *)

\* C11: in a frame that completes a rep, with reads and writes succeeding,
\* the detector reloads the stored counters, adds one to the active
\* exercise's counter, sets the cooldown (3 for high knees, 10 otherwise)
\* and saves: the memory ends as the counters that were stored with one
\* added, the store ends equal to the memory, so the stored active counter
\* grows by exactly one; process_reps leaves every stored counter at 0, so
\* the next rep after it leaves 1.
C11_RepBranchOrder ==
    /\ [][(last_call'.op = "process_frame" /\ last_call'.rep_completed) =>
            /\ rep_counts' = [rep_counter_json.data EXCEPT ![target_exercise'] = @ + 1]
            /\ cooldown_frames' = (IF target_exercise' = HIGH_KNEES THEN 3 ELSE 10)
            /\ rep_counter_json' = Present(rep_counts')
            /\ Stored(Fs', target_exercise') = Stored(Fs, target_exercise') + 1]_vars
    /\ [][last_call'.op = "process_reps" =>
            \A k \in Exercises : Stored(Fs', k) = 0]_vars

\* A second rep is counted after process_reps collected the first: 1 is stored.
C11_Witness ==
    /\ last_call.op = "process_frame" /\ last_call.rep_completed
    /\ ledger.reset
    /\ ledger.counted[target_exercise] = 2
    /\ Stored(Fs, target_exercise) = 1

\* C12 as stated: a counted rep sets the cooldown to 7 for jumping jacks and
\* squats and to 3 for high knees.
C12_CooldownSevenOrThree ==
    [][(last_call'.op = "process_frame" /\ last_call'.rep_completed) =>
        cooldown_frames' = (IF target_exercise' = HIGH_KNEES THEN 3 ELSE 7)]_vars

\* C12 amended: a counted rep sets the cooldown to 10 for jumping jacks and
\* squats and to 3 for high knees, and the cooldown never exceeds 10.
C12_CooldownTenOrThree ==
    /\ [](cooldown_frames \in 0..10)
    /\ [][(last_call'.op = "process_frame" /\ last_call'.rep_completed) =>
            /\ target_exercise' \in {JUMPING_JACK, SQUAT} => cooldown_frames' = 10
            /\ target_exercise' = HIGH_KNEES => cooldown_frames' = 3]_vars

\* A squat or a jumping jack has just been counted: the cooldown is above 7.
C12_Witness ==
    /\ last_call.op = "process_frame" /\ last_call.rep_completed
    /\ target_exercise \in {JUMPING_JACK, SQUAT}
    /\ cooldown_frames > 7

\* C14: while the detector is the only writer of the store and reads and
\* writes succeed, after every frame each stored counter equals the
\* in-memory counter and equals what the store started with plus the reps
\* the detector counted for that exercise.
C14_StoredIsInitialPlusCounted ==
    ~ledger.reset =>
        \A k \in Exercises :
            /\ Stored(Fs, k) = rep_counts[k]
            /\ Stored(Fs, k) = ledger.initial[k] + ledger.counted[k]

\* Two reps counted on a store that started at 1, nobody else writing: 3 stored.
C14_Witness ==
    /\ ~ledger.reset
    /\ ledger.initial[target_exercise] = 1
    /\ ledger.counted[target_exercise] = 2
    /\ Stored(Fs, target_exercise) = 3

\* C15: process_reps is atomic with respect to the detector: whenever
\* neither is in the middle of its store access, the counts process_reps has
\* returned plus the count left in the store are the reps the detector
\* counted, for each exercise.
C15_NoRepLostOrDuplicated ==
    race = Quiet =>
        \A k \in Exercises :
            ledger.returned[k] + Stored(Fs, k) = ledger.initial[k] + ledger.counted[k]

\* C26: with reads and writes succeeding and every process_reps running
\* whole between two frames, after any sequence of frames, selector changes
\* and resets, for each exercise the counts process_reps has returned plus
\* the count left in the store are what the store started with plus the
\* reps the detector counted.
C26_ConservedBetweenFrames ==
    \A k \in Exercises :
        ledger.returned[k] + Stored(Fs, k) = ledger.initial[k] + ledger.counted[k]

\* On a store that started at 0, two reps were counted, one has been handed
\* out by process_reps and one is in the store.
C26_Witness ==
    /\ ledger.initial[target_exercise] = 0
    /\ ledger.counted[target_exercise] = 2
    /\ ledger.returned[target_exercise] = 1
    /\ Stored(Fs, target_exercise) = 1

\* C34: a call of process_frame that completes no rep leaves the counter
\* store and the in-memory counters as they were, also when process_reps has
\* reset the store since the detector last read it.
C34_NoRepNoStoreAccess ==
    [][(last_call'.op = "process_frame" /\ ~last_call'.rep_completed) =>
          UNCHANGED <<rep_counts, rep_counter_json>>]_vars

\* process_reps has reset the store, and a frame classified since without a
\* rep has left the store at zero and the counter in memory at its old value.
C34_Witness ==
    /\ ledger.reset
    /\ last_call.op = "process_frame"
    /\ last_call.path = "classified"
    /\ ~last_call.rep_completed
    /\ rep_counts[target_exercise] > 0
    /\ Stored(Fs, target_exercise) = 0

\* C35: after a call of process_frame that counts a rep, reads and writes
\* succeeding, the counter of each exercise other than the active one is, in
\* memory and in the store, what the store held just before the call, and
\* the counter of the active exercise is one more than the store held.
C35_RepChangesOnlyActiveCounter ==
    [][(last_call'.op = "process_frame" /\ last_call'.rep_completed) =>
          \A k \in Exercises :
              LET was == Stored(Fs, k)
                  now == IF k = target_exercise' THEN was + 1 ELSE was
              IN  rep_counts'[k] = now /\ Stored(Fs', k) = now]_vars

\* A jumping jack has just been counted after process_reps collected a
\* squat: the squat counter, 1 in memory before the call, is 0 as stored.
C35_Witness ==
    /\ last_call.op = "process_frame" /\ last_call.rep_completed
    /\ target_exercise = JUMPING_JACK
    /\ ledger.reset
    /\ ledger.counted[SQUAT] = 1
    /\ ledger.returned[SQUAT] = 1
    /\ rep_counts[SQUAT] = 0 /\ Stored(Fs, SQUAT) = 0
    /\ rep_counts[JUMPING_JACK] = 1 /\ Stored(Fs, JUMPING_JACK) = 1

----------------------------------------------------------------------------
(* Persistence failures *)

\* C13: between two consecutive frames no in-memory counter decreases when
\* nothing outside the detector has written the store, whatever reads and
\* writes fail.
C13_CountersNeverDecrease ==
    [][last_call'.op = "process_frame" =>
        \A k \in DOMAIN rep_counts \cap DOMAIN rep_counts' : rep_counts'[k] >= rep_counts[k]]_vars

\* C16: no outcome of the store's reads and writes, a stored document
\* without the active exercise's key included, makes process_frame raise.
C16_FrameNeverRaises == last_call.op = "process_frame" => ~last_call.raised

\* C17: a failed write loses no rep: whenever a rep-completing frame's write
\* succeeds (the store then equals the memory), the stored count of the
\* active exercise is what the store started with plus every rep counted
\* since, the reps whose write failed included.
C17_FailedWriteLosesNoRep ==
    [][(/\ last_call'.op = "process_frame" /\ last_call'.rep_completed /\ ~last_call'.raised
        /\ rep_counter_json' = Present(rep_counts')) =>
        Stored(Fs', target_exercise') =
            ledger'.initial[target_exercise'] + ledger'.counted[target_exercise']]_vars

\* The step is the call process_frame(landmarks) meeting the outcome io.
FrameOfIO(landmarks, io) ==
    \E r \in {process_frame(Self, Fs, landmarks, io)} :
        Becomes(r.self, r.fs) /\ last_call' = r.call

\* C18: a periodic reload whose read of the selector fails keeps the
\* selector the detector had, and so resets nothing.
C18_FailedReloadKeepsSelector ==
    [][\A io \in IoOutcomes, landmarks \in SpecPoses :
        (/\ io.target_read = "fail"
         /\ cooldown_frames = 0 /\ reload_counter + 1 >= RELOAD_INTERVAL
         /\ last_call'.op = "process_frame"
         /\ FrameOfIO(landmarks, io)) =>
            target_exercise' = target_exercise /\ ~last_call'.switched]_vars

----------------------------------------------------------------------------
(* The visibility warning, checked under SpecWarn *)

\* C21: 0 <= warning_counter < 30 after every call; a frame in cooldown
\* leaves the counter alone; a frame outside cooldown with a required joint
\* insufficiently visible adds one to it, and the frame that brings it to 30
\* emits the notice and puts it back to 0; a frame with every required joint
\* visible puts it to 0; no other frame emits the notice.
C21_WarningThrottle ==
    /\ [](warning_counter \in 0..29)
    /\ [][\A lm \in WarnFrames :
            (last_call'.op = "process_frame" /\ FrameOf(lm)) =>
                IF cooldown_frames > 0
                THEN warning_counter' = warning_counter /\ ~last_call'.warned
                ELSE IF Hidden(lm, target_exercise')
                THEN IF warning_counter = 29
                     THEN warning_counter' = 0 /\ last_call'.warned
                     ELSE warning_counter' = warning_counter + 1 /\ ~last_call'.warned
                ELSE warning_counter' = 0 /\ ~last_call'.warned]_vars

\* The 30th frame in a row without the required joints has emitted the notice,
\* in a session that counted a rep before.
C21_Witness ==
    /\ last_call.op = "process_frame"
    /\ last_call.warned
    /\ warning_counter = 0
    /\ ledger.counted[target_exercise] = 1

----------------------------------------------------------------------------
(* Loading the two files, checked under SpecLoad *)

\* The step is detector = ExerciseDetector(); detector.load_counts() meeting io.
StartOf(io) == \E r \in {Construct(Fs, io)} : Becomes(r.self, r.fs)

\* The step runs load_target_exercise under the outcome io: it is the start
\* of main(), or the frame outside cooldown that brings reload_counter to 30.
LoadsTarget(io) ==
    \/ last_call = Unstarted /\ last_call' = NoCall /\ StartOf(io)
    \/ /\ last_call # Unstarted
       /\ cooldown_frames = 0
       /\ reload_counter + 1 >= RELOAD_INTERVAL
       /\ last_call'.op = "process_frame"
       /\ \E lm \in LoadPoses : FrameOfIO(lm, io)

\* C22: when target_exercise.json does not exist as the detector loads the
\* selector (at construction or at a periodic reload) and the write
\* succeeds, the active exercise becomes Squat and the file is created
\* holding {"target": "squats"}.
C22_AbsentSelectorCreated ==
    [][\A io \in LoadOutcomes :
        (/\ target_exercise_json.state = "missing"
         /\ io.target_write = "ok"
         /\ LoadsTarget(io)) =>
            /\ target_exercise' = SQUAT
            /\ target_exercise_json' = Present([k \in {"target"} |-> "squats"])]_vars

\* The detector has started on a missing selector file: Squat, file created.
C22_Witness ==
    /\ last_call = NoCall
    /\ ledger.found.target_exercise = "missing"
    /\ target_exercise = SQUAT
    /\ target_exercise_json = Present([k \in {"target"} |-> "squats"])

\* C23: when rep_counter.json does not exist as the detector starts and the
\* write succeeds, the start creates it holding 0 for jumping_jacks, squats
\* and high_knees.
C23_MissingStoreCreated ==
    [][\A io \in LoadOutcomes :
        (/\ last_call = Unstarted /\ last_call' = NoCall
         /\ rep_counter_json.state = "missing"
         /\ io.counts_write = "ok"
         /\ StartOf(io)) =>
            /\ rep_counter_json'.state = "present"
            /\ DOMAIN rep_counter_json'.data = {"jumping_jacks", "squats", "high_knees"}
            /\ \A k \in DOMAIN rep_counter_json'.data : rep_counter_json'.data[k] = 0]_vars

\* The detector has started on a missing counter store: the store holds zeros.
C23_Witness ==
    /\ last_call = NoCall
    /\ ledger.found.rep_counter = "missing"
    /\ rep_counter_json.state = "present"
    /\ rep_counter_json.data["squats"] = 0

\* C28: once constructed, the detector's target_exercise is JumpingJack,
\* Squat or HighKnees whatever load_target_exercise met (file present,
\* missing, unreadable, any target string); a successfully read target
\* "jumping_jacks" selects JumpingJack, "high_knees" HighKnees, and every
\* other content ("bicep_curls", "tricep_extensions", "lateral_raises", no
\* "target" key) selects Squat.
C28_SelectorNeverNone ==
    /\ [](last_call # Unstarted => target_exercise \in {JUMPING_JACK, SQUAT, HIGH_KNEES})
    /\ [][\A io \in LoadOutcomes :
            (/\ target_exercise_json.state = "present"
             /\ io.target_read = "ok"
             /\ LoadsTarget(io)) =>
                LET data == target_exercise_json.data
                IN  IF "target" \in DOMAIN data /\ data["target"] = "jumping_jacks"
                    THEN target_exercise' = JUMPING_JACK
                    ELSE IF "target" \in DOMAIN data /\ data["target"] = "high_knees"
                    THEN target_exercise' = HIGH_KNEES
                    ELSE target_exercise' = SQUAT]_vars

\* A reload has read "bicep_curls" and switched the detector to Squat.
C28_Witness ==
    /\ last_call.op = "process_frame"
    /\ last_call.reloaded /\ last_call.switched
    /\ target_exercise_json = Present([k \in {"target"} |-> "bicep_curls"])
    /\ target_exercise = SQUAT

----------------------------------------------------------------------------
(* The selector NONE, checked under SpecNone *)

\* C24: a call of process_frame outside cooldown in which the selector is
\* NONE when the joints would be checked (the reload, if it ran, left NONE)
\* checks no visibility and classifies nothing: the per-exercise states, the
\* cooldown counter, the warning counter and the rep counters in memory and
\* in the store are as before, no rep and no notice.
C24_NoneDoesNothing ==
    [][(/\ last_call'.op = "process_frame"
        /\ cooldown_frames = 0
        /\ target_exercise' = NONE) =>
            /\ last_call'.path = "idle"
            /\ ~last_call'.rep_completed /\ ~last_call'.warned
            /\ UNCHANGED <<machines, cooldown_frames, warning_counter, rep_counts,
                           rep_counter_json>>]_vars

\* A frame has been processed under NONE while the squat machine was
\* Squatting and the warning counter was running: both are still so.
C24_Witness ==
    /\ last_call.op = "process_frame"
    /\ last_call.path = "idle"
    /\ target_exercise = NONE
    /\ squat_state = SQUATTING
    /\ warning_counter > 0

----------------------------------------------------------------------------
(* Cooldown frames, checked under Spec *)

\* C25: a call of process_frame with cooldown_frames > 0, whatever the
\* frame shows and whatever the two files hold, decrements cooldown_frames
\* by one and leaves the selector, the per-exercise states, the reload
\* counter, the warning counter, the rep counters and both files as they
\* were; it emits no notice and reloads nothing.
C25_CooldownFrameOnlyDecrements ==
    [][\A lm \in SpecFrames :
        (cooldown_frames > 0 /\ last_call'.op = "process_frame" /\ FrameOf(lm)) =>
            /\ cooldown_frames' = cooldown_frames - 1
            /\ last_call'.path = "cooldown"
            /\ ~last_call'.reloaded /\ ~last_call'.warned /\ ~last_call'.rep_completed
            /\ UNCHANGED <<target_exercise, machines, reload_counter, warning_counter,
                           rep_counts, files>>]_vars

\* The last cooldown frame has passed while the selector file names another
\* exercise than the detector's: nothing but the cooldown counter moved.
C25_Witness ==
    /\ last_call.op = "process_frame"
    /\ last_call.path = "cooldown"
    /\ cooldown_frames = 0
    /\ target_exercise_json.data["target"] # target_exercise

----------------------------------------------------------------------------
(* Selector changes, checked under Spec *)

\* C27: in every state reached through construction and calls of
\* process_frame, the machines of the exercises other than the active one
\* are at their initial values.
C27_InactiveMachinesInitial ==
    /\ target_exercise # JUMPING_JACK => jumping_jack_state = NEUTRAL
    /\ target_exercise # SQUAT => squat_state = STANDING
    /\ target_exercise # HIGH_KNEES => ~left_knee_was_up /\ ~right_knee_was_up

\* The detector has counted a squat earlier and is now in the middle of a
\* jumping jack: the squat machine and the knee flags are at rest.
C27_Witness ==
    /\ target_exercise = JUMPING_JACK
    /\ jumping_jack_state = ARMS_UP
    /\ ledger.counted[SQUAT] > 0
    /\ squat_state = STANDING

\* C29: a call of process_frame whose reload finds another selector than
\* the detector had counts no rep: the rep counters in memory and in the
\* store and the cooldown counter (0) are as before the call.
C29_NoRepOnSwitchFrame ==
    [][(last_call'.op = "process_frame" /\ last_call'.switched) =>
        /\ ~last_call'.rep_completed
        /\ target_exercise' # target_exercise
        /\ cooldown_frames = 0 /\ cooldown_frames' = 0
        /\ UNCHANGED <<rep_counts, rep_counter_json>>]_vars

\* The frame that found the new selector high knees was classified on the
\* reset flags and raised a knee.
C29_Witness ==
    /\ last_call.op = "process_frame"
    /\ last_call.switched
    /\ last_call.path = "classified"
    /\ target_exercise = HIGH_KNEES
    /\ left_knee_was_up

----------------------------------------------------------------------------
(* Adoption of a selector change, checked under SpecAdopt *)

\* The four per-exercise states of a detector record.
MachinesOf(self) ==
    <<self.jumping_jack_state, self.squat_state, self.left_knee_was_up,
      self.right_knee_was_up>>

\* C30: after a change of target_exercise.json to a recognised exercise,
\* the detector has the stored selector after at most 30 further calls of
\* process_frame outside cooldown (while it still has another selector,
\* fewer than 30 such calls have been made since the change); the call that
\* adopts the selector resets the four per-exercise states before it
\* classifies its frame, so after it they are what one classification of
\* the frame makes of the initial states; a call in cooldown leaves the
\* reload counter alone.
C30_ChangeAdoptedWithinThirty ==
    /\ [](ledger.stale <= 30)
    /\ [](target_exercise # StoredTarget(Fs) => ledger.stale < 30)
    /\ [][(last_call'.op = "process_frame" /\ last_call'.path = "cooldown") =>
            reload_counter' = reload_counter]_vars
    /\ [][\A lm \in SpecPoses :
            (/\ last_call'.op = "process_frame"
             /\ target_exercise' # target_exercise
             /\ FrameOf(lm)) =>
                /\ last_call'.switched
                /\ target_exercise' = StoredTarget(Fs)
                /\ LET fresh == [Self EXCEPT !.target_exercise = target_exercise',
                                             !.jumping_jack_state = NEUTRAL,
                                             !.squat_state = STANDING,
                                             !.left_knee_was_up = FALSE,
                                             !.right_knee_was_up = FALSE]
                   IN  machines' = MachinesOf(classify(fresh, lm).self)]_vars

\* The selector was adopted by exactly the 30th call outside cooldown after
\* the file changed, in a session with a cooldown in it.
C30_Witness ==
    /\ last_call.op = "process_frame"
    /\ last_call.switched
    /\ ledger.stale = 30
    /\ target_exercise = StoredTarget(Fs)
    /\ Total(ledger.counted) > 0

----------------------------------------------------------------------------
(* Expiry of the cooldown, checked under SpecCool *)

\* The cooldown the latest counted rep set: 0 when no rep was counted yet.
CooldownSet == IF trace = <<>> THEN 0 ELSE trace[1].cooldown

\* C31: after a call of process_frame that counts a rep and sets the cooldown
\* to C, each of the next C calls returns from the cooldown branch, leaving
\* reload counter, warning counter and per-exercise states alone; the call
\* after them, and every later call up to the next rep, takes the normal
\* path: it advances the reload counter and goes on to the visibility gate
\* and, past it, the classifier.  With frames arriving for ever, a positive
\* cooldown counter leads to a cooldown counter of 0.
C31_CooldownExpires ==
    /\ [](cooldown_frames = IF window < CooldownSet THEN CooldownSet - window ELSE 0)
    /\ [][last_call'.op = "process_frame" =>
            IF window < CooldownSet
            THEN /\ last_call'.path = "cooldown"
                 /\ UNCHANGED <<reload_counter, warning_counter, machines, rep_counts>>
            ELSE /\ last_call'.path \in {"gated", "classified"}
                 /\ reload_counter' = (reload_counter + 1) % RELOAD_INTERVAL]_vars
    /\ (cooldown_frames > 0) ~> (cooldown_frames = 0)

\* The call after the ten cooldown calls of a squat rep has classified its frame.
C31_Witness ==
    /\ trace # <<>>
    /\ trace[1].exercise = SQUAT
    /\ window = CooldownSet + 1
    /\ CooldownSet = COOLDOWN_DURATION
    /\ last_call.op = "process_frame"
    /\ last_call.path = "classified"
    /\ cooldown_frames = 0

----------------------------------------------------------------------------
(* Distance between reps, checked under SpecApart *)

\* C32: while the cooldown counter is positive and the active exercise is
\* JumpingJack or Squat, that exercise's state machine is in Neutral or
\* Standing; and a counted rep of JumpingJack or Squat that follows a counted
\* rep of JumpingJack or Squat is at least its 12th call of process_frame
\* after it.
C32_NeutralInCooldownTwelveApart ==
    /\ (cooldown_frames > 0 /\ target_exercise = JUMPING_JACK) => jumping_jack_state = NEUTRAL
    /\ (cooldown_frames > 0 /\ target_exercise = SQUAT) => squat_state = STANDING
    /\ (/\ trace # <<>>
        /\ trace[1].exercise \in {JUMPING_JACK, SQUAT}
        /\ trace[1].after \in {JUMPING_JACK, SQUAT}) => trace[1].apart >= 12

\* A jumping jack has just been counted by the 12th call after a counted
\* squat, and its cooldown runs.
C32_Witness ==
    /\ trace # <<>>
    /\ trace[1].exercise = JUMPING_JACK
    /\ trace[1].after = SQUAT
    /\ trace[1].apart = 12
    /\ window = 0
    /\ cooldown_frames > 0
    /\ jumping_jack_state = NEUTRAL

----------------------------------------------------------------------------
(* Order of reload and visibility gate, checked under Spec *)

\* C33: the call of process_frame that brings the reload counter to 30
\* re-reads the selector before it looks at the joints: after it the
\* detector has the stored selector; when that differs from the one it had,
\* the four per-exercise states are reset, and stay reset when the frame is
\* then skipped at the gate; and the frame is skipped at the gate exactly
\* when a joint required by the selector just loaded is insufficiently
\* visible.
C33_ReloadBeforeGate ==
    [][\A lm \in SpecFrames :
          (/\ cooldown_frames = 0
           /\ reload_counter = RELOAD_INTERVAL - 1
           /\ last_call'.op = "process_frame"
           /\ FrameOf(lm)) =>
              /\ last_call'.reloaded
              /\ reload_counter' = 0
              /\ target_exercise' = StoredTarget(Fs)
              /\ last_call'.switched <=> target_exercise' # target_exercise
              /\ last_call'.path = "gated" <=> Hidden(lm, target_exercise')
              /\ (last_call'.switched /\ Hidden(lm, target_exercise')) =>
                    machines' = <<NEUTRAL, STANDING, FALSE, FALSE>>]_vars

\* The reload has just switched from another exercise to jumping jacks and
\* the frame, a wrist of which is hidden, was skipped at the gate.
C33_Witness ==
    /\ last_call.op = "process_frame"
    /\ last_call.reloaded
    /\ last_call.switched
    /\ last_call.path = "gated"
    /\ target_exercise = JUMPING_JACK
    /\ warning_counter = 1
    /\ machines = <<NEUTRAL, STANDING, FALSE, FALSE>>

====
